---------------------------- MODULE Spec2Model ----------------------------
(***************************************************************************)
(* A model of pgdb: the ConnectClient connection scope (open), its         *)
(* transaction manager with serialization/deadlock retry, and the          *)
(* Database migration engine that runs on top of them.                     *)
(*                                                                         *)
(* The database server and the pg driver are the environment.  A statement *)
(* sent on the connection either succeeds or is rejected with one of the   *)
(* driver codes of DriverCodes.  The server keeps one transaction block    *)
(* per connection: BEGIN inside a block and COMMIT/ROLLBACK outside one    *)
(* are warnings that change nothing, COMMIT inside a block publishes the   *)
(* block's work, ROLLBACK discards it.  A rejected COMMIT and a rejected   *)
(* ROLLBACK leave no block open and publish nothing.                       *)
(***************************************************************************)
EXTENDS Integers, Sequences, FiniteSets, TLC

VARIABLES
    pc,        \* position of the current ConnectClient operation
    op,        \* the current ConnectClient operation: [kind, sql]
    stack,     \* frames of transaction() calls in progress, outermost first
    acquired,  \* connect() has returned a connection for the operation
    thrown,    \* the error the operation threw to its caller (NoError: none)
    result,    \* the rows the operation returned
    db,        \* committed database state: [table, ledger, log]
    tx,        \* the connection's transaction block: [open, ledger, log]
    hist,      \* observations of the current ConnectClient operation
    dpc,       \* position of the current Database method
    dop,       \* the Database object: the method in progress (name, auto),
               \* whether this.client is set, init's upToDate accumulator
    dk,        \* index of the migration the Database method is working on
    dres,      \* what the Database method returned or threw
    dhist,     \* observations of the Database methods
    input,     \* the arguments of the library call being evaluated
    output,    \* what that call returned or threw
    cl,        \* two concurrent clients: each one's position in
               \* updateToLatest and in its transaction()
    srv        \* the server they share: committed ledger rows and
               \* statements, and each client's transaction

vars == <<pc, op, stack, acquired, thrown, result, db, tx, hist,
          dpc, dop, dk, dres, dhist, input, output, cl, srv>>

clientVars == <<pc, op, stack, acquired, thrown, result, hist>>
dbVars == <<dpc, dop, dk, dres, dhist>>
callVars == <<input, output>>

concVars == <<cl, srv>>

---------------------------------------------------------------------------
(* Bounds of the model *)

\* statements a unit of work issues in one run
MaxUowSteps == 2
\* migrations in the static list
NumMigrations == 2
\* statements per migration
NumStatements == 2
\* migrations in a list handed to the Database constructor
MaxListLen == 3
\* characters in a statement handed to Migration.hash
MaxStmtLen == 2
\* field names passed in one call of pick, omit, select or update
MaxProps == 2
\* mappings derived one from another, starting at a constructed one
MaxDerive == 2
\* rows in a result handed to a single-row operation
MaxRows == 2
\* columns of one constraint
MaxColumns == 2
\* characters in a key handed to snakeCaseMap
MaxKeyLen == 2
\* keys handed to snakeCaseMap
MaxKeys == 2

(* Program constants *)
deadlockRetries == 10

---------------------------------------------------------------------------
(* errors.ts *)

NoError == [kind |-> "none", code |-> "undefined", convertedCode |-> "undefined",
            message |-> ""]

\* an error as the pg driver raises it; code "undefined": no code field
PgError(c) == [kind |-> "pg", code |-> c, convertedCode |-> "undefined",
               message |-> "driver"]

DbError(k) == [kind |-> "DbError", code |-> "undefined", convertedCode |-> k,
               message |-> "db"]

NotFoundDbError == DbError("NotFound")

MoreThanOneDbError == DbError("MoreThanOne")

PlainError(m) == [kind |-> "Error", code |-> "undefined",
                  convertedCode |-> "undefined", message |-> m]

\* codes the driver may raise; 42P01 stands for every code convertPgError
\* does not recognise
DriverCodes == {"23503", "23505", "40001", "40P01", "42P01", "undefined"}

\* a conversion that wraps what it does not recognise
convertWrapsUnknown(err) ==
    CASE err.code = "23503" -> DbError("InvalidReference")
      [] err.code = "23505" -> DbError("DuplicateKey")
      [] err.code = "40001" -> DbError("SerializationFailure")
      [] err.code = "40P01" -> DbError("DeadlockDetected")
      [] OTHER -> DbError("Unknown")

convertPgError(err) ==
    IF err.code = "undefined" THEN err
    ELSE CASE err.code = "23503" -> DbError("InvalidReference")
           [] err.code = "23505" -> DbError("DuplicateKey")
           [] err.code = "40001" -> DbError("SerializationFailure")
           [] err.code = "40P01" -> DbError("DeadlockDetected")
           [] OTHER -> err

\* DbErrorCode.Unknown is 0: `if (err.convertedCode)` is false for it and
\* for a missing field alike
getDbErrorCode(err) ==
    IF err.convertedCode \notin {"undefined", "Unknown"}
    THEN err.convertedCode
    ELSE "Unknown"


---------------------------------------------------------------------------
(* migration.ts and the static migration list *)

\* the text of statement j of migration v, as a sequence of characters
StatementText(v, j) == <<v, j>>

Migrations ==
    [v \in 1..NumMigrations |->
        [version |-> v,
         statements |-> [j \in 1..NumStatements |-> StatementText(v, j)]]]

RECURSIVE Concat(_)
Concat(texts) ==
    IF texts = <<>> THEN <<>> ELSE Head(texts) \o Concat(Tail(texts))

\* a reduce that starts a new sha1 for every statement
HashLastOnly(statements) ==
    IF statements = <<>> THEN <<>> ELSE statements[Len(statements)]

\* Migration.hash: every statement is fed to one sha1 in order, so the digest
\* is that of the concatenated text; the digest itself is taken as injective
Hash(statements) == Concat(statements)

---------------------------------------------------------------------------
(* The database server, one connection *)

\* versions a ledger row may carry: those of the list and one beyond it
Versions == 1..(NumMigrations + 1)

NoRow == [present |-> FALSE, hash |-> <<>>]
Row(h) == [present |-> TRUE, hash |-> h]

\* the hash a ledger row of version v holds when it was written from the
\* current list, and when it was written from an earlier text of the list
\* (one that lacked the first statement)
GoodHash(v) ==
    IF v \in 1..NumMigrations THEN Hash(Migrations[v].statements) ELSE <<v>>
OldHash(v) ==
    IF v \in 1..NumMigrations THEN Hash(Tail(Migrations[v].statements))
    ELSE <<v, v>>

EmptyLedger == [v \in Versions |-> NoRow]

Closed == [open |-> FALSE, ledger |-> EmptyLedger, log |-> <<>>]

\* what a statement reads: the block's working copy inside a block
View == IF tx.open THEN [table |-> db.table, ledger |-> tx.ledger, log |-> tx.log]
        ELSE db

RECURSIVE IdsUpTo(_, _)
IdsUpTo(ledger, n) ==
    IF n = 0 THEN <<>>
    ELSE IdsUpTo(ledger, n - 1) \o (IF ledger[n].present THEN <<n>> ELSE <<>>)

\* SELECT id ... ORDER BY id ASC
SortedIds(ledger) == IdsUpTo(ledger, NumMigrations + 1)

Kind(sql) == sql[1]

UsesLedger(sql) == Kind(sql) \in {"selectIds", "selectHash", "insert"}

\* the codes the server may reject a statement with
Rejections(sql) ==
    IF UsesLedger(sql) /\ ~db.table THEN {"42P01"}
    ELSE IF Kind(sql) = "insert" /\ View.ledger[sql[2]].present THEN {"23505"}
    ELSE DriverCodes

\* whether the server may accept the statement
Acceptable(sql) ==
    /\ UsesLedger(sql) => db.table
    /\ Kind(sql) = "insert" => ~View.ledger[sql[2]].present

\* the rows an accepted statement returns
RowsOf(sql) ==
    CASE Kind(sql) = "stmt" -> {<<>>, <<"r">>, <<"r", "r">>}
      [] Kind(sql) = "probe" -> {<<IF db.table THEN 1 ELSE 0>>}
      [] Kind(sql) = "selectIds" -> {SortedIds(View.ledger)}
      [] Kind(sql) = "selectHash" ->
            {IF View.ledger[sql[2]].present
             THEN <<View.ledger[sql[2]].hash>> ELSE <<>>}
      [] OTHER -> {<<>>}

\* the ledger and the log after an accepted statement
LedgerAfter(sql, ledger) ==
    IF Kind(sql) = "insert"
    THEN [ledger EXCEPT ![sql[2]] = Row(sql[3])]
    ELSE ledger
LogAfter(sql, log) ==
    IF Kind(sql) \in {"stmt", "mig"} THEN Append(log, sql) ELSE log

\* the server accepts the statement
Accept(sql) ==
    CASE Kind(sql) = "BEGIN" ->
            /\ tx' = IF tx.open THEN tx
                     ELSE [open |-> TRUE, ledger |-> db.ledger, log |-> db.log]
            /\ db' = db
      [] Kind(sql) = "COMMIT" ->
            /\ db' = IF tx.open
                     THEN [db EXCEPT !.ledger = tx.ledger, !.log = tx.log]
                     ELSE db
            /\ tx' = Closed
      [] Kind(sql) = "ROLLBACK" ->
            /\ tx' = Closed
            /\ db' = db
      [] Kind(sql) = "create" ->
            /\ db' = [db EXCEPT !.table = TRUE]
            /\ tx' = tx
      [] OTHER ->
            IF tx.open
            THEN /\ tx' = [tx EXCEPT !.ledger = LedgerAfter(sql, tx.ledger),
                                     !.log = LogAfter(sql, tx.log)]
                 /\ db' = db
            ELSE /\ db' = [db EXCEPT !.ledger = LedgerAfter(sql, db.ledger),
                                     !.log = LogAfter(sql, db.log)]
                 /\ tx' = tx

\* the server rejects the statement
Reject(sql) ==
    /\ tx' = IF Kind(sql) \in {"COMMIT", "ROLLBACK"} THEN Closed ELSE tx
    /\ db' = db

---------------------------------------------------------------------------
(* connectClient.ts: the connection scope *)

NoCall == [kind |-> "none", sql |-> <<"none">>]

NewHist ==
    [released |-> 0,            \* calls of release on the connection
     stmtAfterRelease |-> FALSE, \* a statement was sent after a release
     begins |-> 0,              \* BEGINs of the outermost transaction()
     uowRuns |-> 0,             \* runs of the outermost unit of work
     delays |-> 0,              \* retry delays of the outermost transaction()
     nestedBegin |-> FALSE,     \* a nested transaction() sent a BEGIN
     pure |-> TRUE,             \* every attempt so far ended by the unit of
                                \* work raising a retryable classified error,
                                \* followed by an accepted ROLLBACK
     raised |-> NoError,        \* the error the outermost unit of work raised
                                \* in the current attempt
     fatal |-> NoError,         \* the non-retryable error the unit raised
     afterFatal |-> {}]         \* what transaction() did after it

NoDHist ==
    [stmts |-> {},              \* kinds of statement the method has sent
     table0 |-> FALSE,          \* the ledger table existed when it started
     ledger0 |-> EmptyLedger,   \* the committed ledger when it started
     origin |-> EmptyLedger,    \* the committed ledger before any method ran
     outsideTx |-> FALSE,       \* a migration statement or ledger INSERT was
                                \* sent outside a BEGIN..COMMIT block
     completed |-> 0,           \* updateToLatest calls that returned (max 2)
     doneLedger |-> EmptyLedger, \* the committed ledger when the first did
     writeAfterDone |-> FALSE,  \* a migration statement or ledger INSERT was
                                \* sent after an updateToLatest had returned
     fresh |-> FALSE]           \* init(true) has returned on a database that
                                \* had no ledger table

\* a statement goes out on the connection
StmtNote(h) == [h EXCEPT !.stmtAfterRelease = @ \/ h.released > 0]

IsWrite(sql) == Kind(sql) \in {"mig", "insert"}

DNote(sql) ==
    IF dop.name = "none" THEN dhist
    ELSE [dhist EXCEPT
            !.stmts = @ \cup {Kind(sql)},
            !.outsideTx = @ \/ (IsWrite(sql) /\ ~tx.open),
            !.writeAfterDone = @ \/ (IsWrite(sql) /\ dhist.completed > 0)]

\* a release that does not look at `this.release`
ReleaseAlways(hasRelease) == 1

\* open()'s finally: `if (this.release) this.release(client)`
ReleaseCalls(hasRelease) == IF hasRelease THEN 1 ELSE 0

\* the transaction-scoped handle is `new ConnectClient(() => client)`: it has
\* no release
HandleHasRelease == FALSE

NewFrame(uow, arg) ==
    [uow |-> uow, arg |-> arg, pc |-> "begin", i |-> 0, e |-> NoError, n |-> 0]

\* a ConnectClient method is called: open() awaits connect()
Invoke(kind, sql, uow, arg) ==
    /\ op' = [kind |-> kind, sql |-> sql]
    /\ hist' = NewHist
    /\ thrown' = NoError
    /\ result' = <<>>
    /\ \/ /\ acquired' = TRUE
          /\ pc' = IF kind = "transaction" THEN "tx" ELSE "opened"
          /\ stack' = IF kind = "transaction" THEN <<NewFrame(uow, arg)>>
                      ELSE <<>>
       \/ \* connect() rejects: nothing was acquired, open() never entered try
          /\ acquired' = FALSE
          /\ pc' = "done"
          /\ thrown' = PgError("undefined")
          /\ stack' = <<>>

\* query, scalar, single, singleOrNothing: the statement inside open()
Query ==
    /\ pc = "opened"
    /\ op.kind \in {"query", "scalar", "single", "singleOrNothing"}
    /\ pc' = "finally"
    /\ hist' = StmtNote(hist)
    /\ dhist' = DNote(op.sql)
    /\ \/ \E c \in Rejections(op.sql) :
            /\ Reject(op.sql)
            /\ thrown' = convertPgError(PgError(c))
            /\ result' = result
       \/ /\ Acceptable(op.sql)
          /\ Accept(op.sql)
          /\ \E rows \in RowsOf(op.sql) :
                IF op.kind = "scalar" /\ Len(rows) # 1
                THEN /\ thrown' = convertPgError(MoreThanOneDbError)
                     /\ result' = result
                ELSE /\ thrown' = thrown
                     /\ result' = rows
    /\ UNCHANGED <<op, stack, acquired, dpc, dop, dk, dres>>
    /\ UNCHANGED <<callVars, concVars>>

\* what single and singleOrNothing throw once query() has returned
AfterQuery(kind, rows) ==
    CASE kind = "single" /\ Len(rows) # 1 -> MoreThanOneDbError
      [] kind = "singleOrNothing" /\ Len(rows) > 1 -> MoreThanOneDbError
      [] OTHER -> NoError

\* open()'s finally, then the caller's check of the rows
Finally ==
    /\ pc = "finally"
    /\ pc' = "done"
    /\ hist' = [hist EXCEPT !.released = @ + ReleaseCalls(TRUE)]
    /\ thrown' = IF thrown = NoError THEN AfterQuery(op.kind, result) ELSE thrown
    /\ UNCHANGED <<op, stack, acquired, result, db, tx, dbVars>>
    /\ UNCHANGED <<callVars, concVars>>

---------------------------------------------------------------------------
(* connectClient.ts: transaction() *)

Depth == Len(stack)
Top == stack[Depth]
SetTop(f) == [stack EXCEPT ![Depth] = f]

\* errCode === DeadlockDetected || errCode === SerializationFailure
IsRetryable(errCode) == errCode \in {"DeadlockDetected", "SerializationFailure"}

\* i++ < deadlockRetries - 1: one retry short
RetryOneShort(i) == i + 1 < deadlockRetries

\* ++i <= deadlockRetries
RetryAllowed(i) == i + 1 <= deadlockRetries

\* a catch block that retries whatever the error is
RetryAnyError(e, i) == i + 1 <= deadlockRetries

\* the catch block's decision to `continue`
WillRetry(e, i) == IsRetryable(getDbErrorCode(e)) /\ RetryAllowed(i)

\* observations of the outermost transaction()
Outermost(h, g) == IF Depth = 1 THEN g ELSE h
Impure(h) == Outermost(h, [h EXCEPT !.pure = FALSE])
AfterFatal(h, ev) ==
    IF Depth = 1 /\ h.fatal # NoError
    THEN [h EXCEPT !.afterFatal = @ \cup {ev}] ELSE h
Raised(h, e) ==
    [h EXCEPT !.raised = e,
              !.pure = @ /\ IsRetryable(getDbErrorCode(e)),
              !.fatal = IF @ = NoError /\ ~IsRetryable(getDbErrorCode(e))
                        THEN e ELSE @]

\* the unit of work of the top frame throws e: the catch block is entered
UowRaises(e, h) ==
    /\ stack' = SetTop([Top EXCEPT !.e = e, !.pc = "rollback"])
    /\ hist' = Outermost(h, Raised(h, e))
    /\ UNCHANGED <<pc, thrown, result>>

\* transaction() of the top frame throws x out of its open() callback:
\* open() converts it and runs its finally
FrameThrow(x, h) ==
    IF Depth = 1
    THEN /\ pc' = "finally"
         /\ stack' = <<>>
         /\ thrown' = convertPgError(x)
         /\ hist' = h
         /\ result' = result
    ELSE LET h2 == [h EXCEPT !.released = @ + ReleaseCalls(HandleHasRelease)]
             e2 == convertPgError(x)
         IN /\ stack' = [k \in 1..(Depth - 1) |->
                            IF k = Depth - 1
                            THEN [stack[k] EXCEPT !.e = e2, !.pc = "rollback"]
                            ELSE stack[k]]
            /\ hist' = Raised(h2, e2)
            /\ UNCHANGED <<pc, thrown, result>>

\* transaction() of the top frame returns
FrameReturn(h) ==
    IF Depth = 1
    THEN /\ pc' = "finally"
         /\ stack' = <<>>
         /\ hist' = h
         /\ UNCHANGED <<thrown, result>>
    ELSE /\ stack' = SubSeq(stack, 1, Depth - 1)
         /\ hist' = [h EXCEPT !.released = @ + ReleaseCalls(HandleHasRelease)]
         /\ UNCHANGED <<pc, thrown, result>>

InTx == pc = "tx" /\ Depth > 0

\* client.query(`BEGIN TRANSACTION ISOLATION LEVEL ${mode}`)
TxBegin ==
    /\ InTx
    /\ Top.pc = "begin"
    /\ dhist' = DNote(<<"BEGIN">>)
    /\ LET h == AfterFatal(
                  [StmtNote(hist) EXCEPT
                      !.begins = IF Depth = 1 THEN @ + 1 ELSE @,
                      !.nestedBegin = @ \/ Depth > 1],
                  "BEGIN")
       IN \/ \E c \in Rejections(<<"BEGIN">>) :
               /\ Reject(<<"BEGIN">>)
               /\ stack' = SetTop([Top EXCEPT !.e = PgError(c),
                                              !.pc = "rollback"])
               /\ hist' = Impure(h)
          \/ /\ Accept(<<"BEGIN">>)
             /\ stack' = SetTop([Top EXCEPT !.pc = "uow", !.n = 0])
             /\ hist' = Outermost(h, [h EXCEPT !.uowRuns = @ + 1])
    /\ UNCHANGED <<pc, op, acquired, thrown, result, dpc, dop, dk, dres>>
    /\ UNCHANGED <<callVars, concVars>>

\* the unit of work calls query on the handle it was given
UowQuery ==
    /\ InTx
    /\ Top.pc = "uow"
    /\ Top.uow \in {"script", "leaf"}
    /\ Top.n < MaxUowSteps
    /\ dhist' = DNote(<<"stmt">>)
    /\ LET h == [StmtNote(hist) EXCEPT
                    !.released = @ + ReleaseCalls(HandleHasRelease)]
       IN \/ \E c \in Rejections(<<"stmt">>) :
               /\ Reject(<<"stmt">>)
               /\ UowRaises(convertPgError(PgError(c)), h)
          \/ /\ Accept(<<"stmt">>)
             /\ stack' = SetTop([Top EXCEPT !.n = @ + 1])
             /\ hist' = h
             /\ UNCHANGED <<pc, thrown, result>>
    /\ UNCHANGED <<op, acquired, dpc, dop, dk, dres>>
    /\ UNCHANGED <<callVars, concVars>>

\* the unit of work throws an error of its own
UowThrow ==
    /\ InTx
    /\ Top.pc = "uow"
    /\ Top.uow \in {"script", "leaf"}
    /\ \E x \in {NotFoundDbError, MoreThanOneDbError, PlainError("uow")} :
          UowRaises(x, hist)
    /\ UNCHANGED <<op, acquired, db, tx, dbVars>>
    /\ UNCHANGED <<callVars, concVars>>

\* the unit of work calls transaction() on the handle it was given
UowNested ==
    /\ InTx
    /\ Depth = 1
    /\ Top.pc = "uow"
    /\ Top.uow = "script"
    /\ Top.n < MaxUowSteps
    /\ stack' = Append(SetTop([Top EXCEPT !.n = @ + 1]), NewFrame("leaf", 0))
    /\ UNCHANGED <<pc, op, acquired, thrown, result, hist, db, tx, dbVars>>
    /\ UNCHANGED <<callVars, concVars>>

\* the unit of work returns
UowReturn ==
    /\ InTx
    /\ Top.pc = "uow"
    /\ Top.uow \in {"script", "leaf"}
    /\ stack' = SetTop([Top EXCEPT !.pc = "commit"])
    /\ UNCHANGED <<pc, op, acquired, thrown, result, hist, db, tx, dbVars>>
    /\ UNCHANGED <<callVars, concVars>>

\* client.query('COMMIT'); return result
TxCommit ==
    /\ InTx
    /\ Top.pc = "commit"
    /\ dhist' = DNote(<<"COMMIT">>)
    /\ LET h == Impure(StmtNote(hist))
       IN \/ \E c \in Rejections(<<"COMMIT">>) :
               /\ Reject(<<"COMMIT">>)
               /\ stack' = SetTop([Top EXCEPT !.e = PgError(c),
                                              !.pc = "rollback"])
               /\ hist' = h
               /\ UNCHANGED <<pc, thrown, result>>
          \/ /\ Accept(<<"COMMIT">>)
             /\ FrameReturn(h)
    /\ UNCHANGED <<op, acquired, dpc, dop, dk, dres>>
    /\ UNCHANGED <<callVars, concVars>>

\* catch (e): client.query('ROLLBACK'), then retry or throw e
TxRollback ==
    /\ InTx
    /\ Top.pc = "rollback"
    /\ dhist' = DNote(<<"ROLLBACK">>)
    /\ LET h == AfterFatal(StmtNote(hist), "ROLLBACK")
       IN \/ \E c \in Rejections(<<"ROLLBACK">>) :
               /\ Reject(<<"ROLLBACK">>)
               /\ FrameThrow(PgError(c), Impure(h))
          \/ /\ Accept(<<"ROLLBACK">>)
             /\ IF WillRetry(Top.e, Top.i)
                THEN \* e is scoped to the catch block
                     /\ stack' = SetTop([Top EXCEPT !.i = @ + 1,
                                                    !.e = NoError,
                                                    !.pc = "delay"])
                     /\ hist' = Outermost(h, [h EXCEPT !.raised = NoError])
                     /\ UNCHANGED <<pc, thrown, result>>
                ELSE FrameThrow(Top.e, AfterFatal(h, "ROLLBACKok"))
    /\ UNCHANGED <<op, acquired, dpc, dop, dk, dres>>
    /\ UNCHANGED <<callVars, concVars>>

\* await setTimeout(deadlockRetryDelayMs); continue
TxDelay ==
    /\ InTx
    /\ Top.pc = "delay"
    /\ stack' = SetTop([Top EXCEPT !.pc = "begin"])
    /\ hist' = AfterFatal(Outermost(hist, [hist EXCEPT !.delays = @ + 1]),
                          "delay")
    /\ UNCHANGED <<pc, op, acquired, thrown, result, db, tx, dbVars>>
    /\ UNCHANGED <<callVars, concVars>>

---------------------------------------------------------------------------
(* A caller of ConnectClient: one operation on a fresh client *)

IdleDb ==
    /\ dpc = "idle"
    /\ dop.name = "none"

Call ==
    /\ pc = "idle"
    /\ IdleDb
    /\ \E kind \in {"query", "scalar", "single", "transaction"} :
          Invoke(kind, <<"stmt">>, "script", 0)
    /\ UNCHANGED <<db, tx, dbVars>>
    /\ UNCHANGED <<callVars, concVars>>

InitClient ==
    /\ pc = "idle"
    /\ op = NoCall
    /\ stack = <<>>
    /\ acquired = FALSE
    /\ thrown = NoError
    /\ result = <<>>
    /\ hist = NewHist

\* the clients of the concurrent runs and their transactions on the server
Clients == {1, 2}

NewClient == [pc |-> "idle", k |-> 0, n |-> 0, i |-> 0, e |-> NoError,
              status |-> "none"]

\* a connection with no transaction block open
NoTxn == [open |-> FALSE, snap |-> FALSE, seen |-> <<>>, rows |-> <<>>,
          log |-> <<>>]

NewServer == [rows |-> <<>>, log |-> <<>>, txn |-> [c \in Clients |-> NoTxn]]

\* no concurrent run is going on
NoClients ==
    /\ cl = [c \in Clients |-> NewClient]
    /\ srv = NewServer

\* no library call is being evaluated
NoCallVars ==
    /\ input = [fn |-> "none"]
    /\ output = [fn |-> "none"]

NoResult == [method |-> "none", auto |-> FALSE, status |-> "none",
             error |-> NoError]

InitDatabase ==
    /\ dpc = "idle"
    /\ dop = [name |-> "none", auto |-> FALSE, client |-> FALSE,
              upToDate |-> TRUE]
    /\ dk = 0
    /\ dres = NoResult

InitTx ==
    /\ InitClient
    /\ db = [table |-> FALSE, ledger |-> EmptyLedger, log |-> <<>>]
    /\ tx = Closed
    /\ InitDatabase
    /\ dhist = NoDHist
    /\ NoCallVars
    /\ NoClients

NextTx ==
    \/ Call
    \/ Query
    \/ Finally
    \/ TxBegin
    \/ UowQuery
    \/ UowThrow
    \/ UowNested
    \/ UowReturn
    \/ TxCommit
    \/ TxRollback
    \/ TxDelay

SpecTx == InitTx /\ [][NextTx]_vars

---------------------------------------------------------------------------
(* database.ts: applyMigration's unit of work *)

HashMismatch == PlainError("hash mismatch")
VersionMismatch == PlainError("version mismatch")
NotInitialised == PlainError("object disposed or not initialised")

\* a checkMigration that does not compare the hashes
CheckTrustsRow(rows, v) ==
    IF rows = <<>> THEN "absent" ELSE "applied"

\* a checkMigration that never reports a migration as applied
CheckNeverApplied(rows, v) ==
    IF rows # <<>> /\ rows[1] # Hash(Migrations[v].statements)
    THEN "mismatch" ELSE "absent"

\* checkMigration's verdict on the rows of SELECT hash ... WHERE id = v
CheckOutcome(rows, v) ==
    IF rows = <<>> THEN "absent"
    ELSE IF rows[1] = Hash(Migrations[v].statements) THEN "applied"
    ELSE "mismatch"

\* a statement loop that stops one statement early
MigStepSkipsLast(n, len) ==
    IF n = 0 THEN "check"
    ELSE IF n < len THEN "statement"
    ELSE "insert"

\* what applyMigration's callback does at its n-th step, for a migration of
\* len statements
MigStep(n, len) ==
    IF n = 0 THEN "check"
    ELSE IF n <= len THEN "statement"
    ELSE "insert"

InMig ==
    /\ InTx
    /\ Top.pc = "uow"
    /\ Top.uow = "migration"

MigLen == Len(Migrations[Top.arg].statements)

\* a statement the callback sends through the handle
HandleSend(sql, next) ==
    /\ dhist' = DNote(sql)
    /\ LET h == [StmtNote(hist) EXCEPT
                    !.released = @ + ReleaseCalls(HandleHasRelease)]
       IN \/ \E c \in Rejections(sql) :
               /\ Reject(sql)
               /\ UowRaises(convertPgError(PgError(c)), h)
          \/ /\ Acceptable(sql)
             /\ Accept(sql)
             /\ stack' = SetTop(next)
             /\ hist' = h
             /\ UNCHANGED <<pc, thrown, result>>

\* if (await this.checkMigration(migration, client)) return
MigCheck ==
    /\ InMig
    /\ MigStep(Top.n, MigLen) = "check"
    /\ dhist' = DNote(<<"selectHash", Top.arg>>)
    /\ LET sql == <<"selectHash", Top.arg>>
           h == [StmtNote(hist) EXCEPT
                    !.released = @ + ReleaseCalls(HandleHasRelease)]
       IN \/ \E c \in Rejections(sql) :
               /\ Reject(sql)
               /\ UowRaises(convertPgError(PgError(c)), h)
          \/ /\ Acceptable(sql)
             /\ Accept(sql)
             /\ \E rows \in RowsOf(sql) :
                  IF AfterQuery("singleOrNothing", rows) # NoError
                  THEN UowRaises(AfterQuery("singleOrNothing", rows), h)
                  ELSE CASE CheckOutcome(rows, Top.arg) = "absent" ->
                              /\ stack' = SetTop([Top EXCEPT !.n = 1])
                              /\ hist' = h
                              /\ UNCHANGED <<pc, thrown, result>>
                         [] CheckOutcome(rows, Top.arg) = "applied" ->
                              /\ stack' = SetTop([Top EXCEPT !.pc = "commit"])
                              /\ hist' = h
                              /\ UNCHANGED <<pc, thrown, result>>
                         [] OTHER -> UowRaises(HashMismatch, h)
    /\ UNCHANGED <<op, acquired, dpc, dop, dk, dres>>
    /\ UNCHANGED <<callVars, concVars>>

\* for (const statement of migration.statements) client.query(statement)
MigStatement ==
    /\ InMig
    /\ MigStep(Top.n, MigLen) = "statement"
    /\ HandleSend(<<"mig", Top.arg, Top.n>>, [Top EXCEPT !.n = @ + 1])
    /\ UNCHANGED <<op, acquired, dpc, dop, dk, dres>>
    /\ UNCHANGED <<callVars, concVars>>

\* INSERT INTO ledger (id, hash) VALUES (version, hash()); the callback returns
MigInsert ==
    /\ InMig
    /\ MigStep(Top.n, MigLen) = "insert"
    /\ HandleSend(<<"insert", Top.arg, Hash(Migrations[Top.arg].statements)>>,
                  [Top EXCEPT !.pc = "commit"])
    /\ UNCHANGED <<op, acquired, dpc, dop, dk, dres>>
    /\ UNCHANGED <<callVars, concVars>>

---------------------------------------------------------------------------
(* database.ts: init and updateToLatest *)

N == NumMigrations

\* the client operation the method awaited has settled
Settled == pc = "done"

\* the method starts: observations of it begin
Started(name, auto) ==
    /\ dop' = [name |-> name, auto |-> auto, client |-> TRUE, upToDate |-> TRUE]
    /\ dres' = NoResult
    /\ dhist' = [dhist EXCEPT !.stmts = {},
                              !.table0 = db.table,
                              !.ledger0 = db.ledger]

\* the method returns status, or throws err
Finish(status, err) ==
    /\ dpc' = "idle"
    /\ dop' = [dop EXCEPT !.name = "none"]
    /\ dk' = 0
    /\ dres' = [method |-> dop.name, auto |-> dop.auto, status |-> status,
                error |-> err]
    /\ LET utl == err = NoError /\ status \in {"UpToDate", "void"}
                  /\ (dop.name = "init" => dop.auto)
       IN dhist' =
            [dhist EXCEPT
               !.completed = IF utl /\ @ < 2 THEN @ + 1 ELSE @,
               !.doneLedger = IF utl /\ dhist.completed = 0 THEN db.ledger
                              ELSE @,
               !.fresh = @ \/ (utl /\ dop.name = "init" /\ ~dhist.table0)]
    /\ pc' = "idle"
    /\ op' = NoCall
    /\ stack' = <<>>
    /\ acquired' = FALSE
    /\ thrown' = NoError
    /\ result' = <<>>
    /\ hist' = NewHist
    /\ UNCHANGED <<db, tx>>

\* the method goes on to its next client operation
Continue(next, kind, sql, uow, arg) ==
    /\ dpc' = next
    /\ Invoke(kind, sql, uow, arg)
    /\ UNCHANGED <<db, tx, dres, dhist>>

\* an init without the early return
NeverEarly(empty, auto) == FALSE

\* if (empty && !updateToLatest) return DatabaseStatus.Empty
EarlyReturn(empty, auto) == empty /\ ~auto

\* an init without the sense check of the applied versions
SenseCheckSkipped(applied) == FALSE

\* the sense check of the applied versions against the list
SenseCheckFails(applied) ==
    \E i \in 0..(N - 1) : i < Len(applied) /\ applied[i + 1] # i + 1

\* a loop that starts at the second migration
SkipFirst(k) == IF k = 0 THEN 2 ELSE k + 1

\* a loop that steps over every second migration
SkipOne(k) == k + 2

\* for (let migration of this.migrations): the one after the k-th
NextMigration(k) == k + 1

\* init(updateToLatest): new pool and client, then migrationTablePresent()
D_Init ==
    /\ dpc = "idle"
    /\ pc = "idle"
    /\ \E auto \in BOOLEAN : Started("init", auto)
    /\ dpc' = "probe"
    /\ dk' = 0
    /\ Invoke("scalar", <<"probe">>, "none", 0)
    /\ UNCHANGED <<db, tx>>
    /\ UNCHANGED <<callVars, concVars>>

\* the probe has settled: return Empty, or ensureMigrationsTable()
D_Probed ==
    /\ dpc = "probe"
    /\ Settled
    /\ IF thrown # NoError THEN Finish("error", thrown)
       ELSE IF EarlyReturn(result[1] # 1, dop.auto)
            THEN Finish("Empty", NoError)
            ELSE /\ Continue("ensure", "query", <<"create">>, "none", 0)
                 /\ UNCHANGED <<dop, dk>>
    /\ UNCHANGED <<callVars, concVars>>

\* the table is ensured: SELECT id FROM ledger ORDER BY id ASC
D_Ensured ==
    /\ dpc = "ensure"
    /\ Settled
    /\ IF thrown # NoError THEN Finish("error", thrown)
       ELSE /\ Continue("select", "query", <<"selectIds">>, "none", 0)
            /\ UNCHANGED <<dop, dk>>
    /\ UNCHANGED <<callVars, concVars>>

\* the applied versions are read: sense check, then updateToLatest() or the
\* first checkMigration()
D_Selected ==
    /\ dpc = "select"
    /\ Settled
    /\ IF thrown # NoError THEN Finish("error", thrown)
       ELSE IF SenseCheckFails(result) THEN Finish("error", VersionMismatch)
       ELSE IF dop.auto
            THEN /\ Continue("utlEnsure", "query", <<"create">>, "none", 0)
                 /\ UNCHANGED <<dop, dk>>
            ELSE IF N = 0 THEN Finish("UpToDate", NoError)
            ELSE /\ Continue("check", "singleOrNothing",
                             <<"selectHash", NextMigration(0)>>, "none", 0)
                 /\ dk' = NextMigration(0)
                 /\ dop' = dop
    /\ UNCHANGED <<callVars, concVars>>

\* a status that forgets the migrations found unapplied
UpToDateIgnoresCheck(upToDate, applied) == upToDate

\* upToDate = upToDate && applied
UpToDateAfter(upToDate, applied) == upToDate /\ applied

\* a checkMigration() of init's loop has settled
D_Checked ==
    /\ dpc = "check"
    /\ Settled
    /\ IF thrown # NoError THEN Finish("error", thrown)
       ELSE IF CheckOutcome(result, dk) = "mismatch"
            THEN Finish("error", HashMismatch)
       ELSE LET up == UpToDateAfter(dop.upToDate,
                                    CheckOutcome(result, dk) = "applied")
            IN IF NextMigration(dk) <= N
               THEN /\ Continue("check", "singleOrNothing",
                                <<"selectHash", NextMigration(dk)>>, "none", 0)
                    /\ dk' = NextMigration(dk)
                    /\ dop' = [dop EXCEPT !.upToDate = up]
               ELSE Finish(IF up THEN "UpToDate" ELSE "NeedsUpgrade", NoError)
    /\ UNCHANGED <<callVars, concVars>>

\* updateToLatest() called by the application: ensureMigrationsTable()
D_UpdateToLatest ==
    /\ dpc = "idle"
    /\ pc = "idle"
    /\ IF ~dop.client
       THEN \* this.connection throws
            /\ dop' = [dop EXCEPT !.name = "updateToLatest", !.auto = TRUE]
            /\ dpc' = "throw"
            /\ dres' = NoResult
            /\ UNCHANGED <<dk, dhist, db, tx, clientVars>>
       ELSE /\ Started("updateToLatest", TRUE)
            /\ dpc' = "utlEnsure"
            /\ dk' = 0
            /\ Invoke("query", <<"create">>, "none", 0)
            /\ UNCHANGED <<db, tx>>
    /\ UNCHANGED <<callVars, concVars>>

\* get connection(): throw new Error('object disposed or not initialised')
D_NotInitialised ==
    /\ dpc = "throw"
    /\ Finish("error", NotInitialised)
    /\ UNCHANGED <<callVars, concVars>>

\* updateToLatest's table is ensured: applyMigration() of the first migration
D_UtlEnsured ==
    /\ dpc = "utlEnsure"
    /\ Settled
    /\ IF thrown # NoError THEN Finish("error", thrown)
       ELSE IF N = 0
            THEN Finish(IF dop.name = "init" THEN "UpToDate" ELSE "void",
                        NoError)
            ELSE /\ Continue("apply", "transaction", <<"none">>, "migration",
                             NextMigration(0))
                 /\ dk' = NextMigration(0)
                 /\ dop' = dop
    /\ UNCHANGED <<callVars, concVars>>

\* an applyMigration() has settled: the next one, or return
D_Applied ==
    /\ dpc = "apply"
    /\ Settled
    /\ IF thrown # NoError THEN Finish("error", thrown)
       ELSE IF NextMigration(dk) <= N
            THEN /\ Continue("apply", "transaction", <<"none">>, "migration",
                             NextMigration(dk))
                 /\ dk' = NextMigration(dk)
                 /\ dop' = dop
            ELSE Finish(IF dop.name = "init" THEN "UpToDate" ELSE "void",
                        NoError)
    /\ UNCHANGED <<callVars, concVars>>

\* the ledgers a database may hold when the application starts: no table, or
\* a table whose rows were written from this list, from an earlier text of
\* it, or for a version the list does not have
InitMig ==
    /\ InitClient
    /\ InitDatabase
    /\ tx = Closed
    /\ \E table \in BOOLEAN :
       \E ledger \in [Versions -> {"none", "good", "old"}] :
          /\ ~table => \A v \in Versions : ledger[v] = "none"
          /\ db = [table |-> table,
                   ledger |-> [v \in Versions |->
                                 CASE ledger[v] = "none" -> NoRow
                                   [] ledger[v] = "good" -> Row(GoodHash(v))
                                   [] OTHER -> Row(OldHash(v))],
                   log |-> <<>>]
    /\ dhist = [NoDHist EXCEPT !.origin = db.ledger]
    /\ NoCallVars
    /\ NoClients

NextMig ==
    \/ D_Init
    \/ D_Probed
    \/ D_Ensured
    \/ D_Selected
    \/ D_Checked
    \/ D_UpdateToLatest
    \/ D_NotInitialised
    \/ D_UtlEnsured
    \/ D_Applied
    \/ Query
    \/ Finally
    \/ TxBegin
    \/ MigCheck
    \/ MigStatement
    \/ MigInsert
    \/ TxCommit
    \/ TxRollback
    \/ TxDelay

SpecMig == InitMig /\ [][NextMig]_vars

---------------------------------------------------------------------------
(* database.ts: the constructor *)

\* the constructor's loop from position i (0-indexed): 0 when it runs to the
\* end of the list, else the 1-indexed position whose version made it throw
RECURSIVE ConstructorScan(_, _)
ConstructorScan(versions, i) ==
    IF i >= Len(versions) THEN 0
    ELSE IF versions[i + 1] # i + 1 THEN i + 1
    ELSE ConstructorScan(versions, i + 1)

\* a sense check that starts at the second migration
ConstructorCheckFromSecond(versions) == ConstructorScan(versions, 1)

\* for (let i = 0; i < this.migrations.length; ++i)
ConstructorCheck(versions) == ConstructorScan(versions, 0)

\* the lists of versions a caller may hand to the constructor
VersionLists ==
    UNION {[1..n -> 0..(MaxListLen + 1)] : n \in 0..MaxListLen}

\* new Database(config, namespace, migrations)
Construct ==
    /\ input.fn = "Database"
    /\ output.fn = "none"
    /\ LET at == ConstructorCheck(input.versions)
       IN output' = [fn |-> "Database", threw |-> at # 0, at |-> at]
    /\ UNCHANGED <<input, clientVars, dbVars, db, tx, concVars>>

InitCtor ==
    /\ InitClient
    /\ InitDatabase
    /\ db = [table |-> FALSE, ledger |-> EmptyLedger, log |-> <<>>]
    /\ tx = Closed
    /\ dhist = NoDHist
    /\ NoClients
    /\ \E versions \in VersionLists :
          input = [fn |-> "Database", versions |-> versions]
    /\ output = [fn |-> "none"]

NextCtor == Construct

SpecCtor == InitCtor /\ [][NextCtor]_vars

---------------------------------------------------------------------------
(* migration.ts: hash() on its own *)

Alphabet == {"a", "b", "c"}

\* the statement texts a migration may be given
Texts == UNION {[1..n -> Alphabet] : n \in 0..MaxStmtLen}

\* new Migration(v, [s1, s2]).hash(), new Migration(v, [s1]).hash() and
\* new Migration(v, [s2, s1]).hash()
ComputeHash ==
    /\ input.fn = "hash"
    /\ output.fn = "none"
    /\ output' = [fn |-> "hash",
                  h12 |-> Hash(<<input.s1, input.s2>>),
                  h1 |-> Hash(<<input.s1>>),
                  h21 |-> Hash(<<input.s2, input.s1>>)]
    /\ UNCHANGED <<input, clientVars, dbVars, db, tx, concVars>>

InitHash ==
    /\ InitClient
    /\ InitDatabase
    /\ db = [table |-> FALSE, ledger |-> EmptyLedger, log |-> <<>>]
    /\ tx = Closed
    /\ dhist = NoDHist
    /\ NoClients
    /\ \E s1 \in Texts, s2 \in Texts :
          input = [fn |-> "hash", s1 |-> s1, s2 |-> s2]
    /\ output = [fn |-> "none"]

NextHash == ComputeHash

SpecHash == InitHash /\ [][NextHash]_vars

---------------------------------------------------------------------------
(* columnMap.ts *)

Range(seq) == {seq[i] : i \in 1..Len(seq)}

\* the model type's fields and the columns a definition maps them to
FieldNames == <<"id", "name", "age">>
ColumnNames == <<"user_id", "full_name", "age">>
Fields == Range(FieldNames)

\* the text of `$` followed by an index
Dollar == <<"$1", "$2", "$3", "$4", "$5">>

\* sequences without repetition over a set, of at most max elements
Orderings(S, max) ==
    UNION {{q \in [1..n -> S] : \A i, j \in 1..n : q[i] = q[j] => i = j} :
           n \in 0..max}

\* the field lists a caller passes to pick, omit, select and update
Props == Orderings(Fields, MaxProps)

\* a definition object: its keys in insertion order, each with its column
\* text (a sequence of tokens)
DefinitionOf(fs) ==
    [p \in 1..Len(fs) |->
        [field |-> fs[p],
         column |-> <<ColumnNames[CHOOSE i \in 1..Len(FieldNames) :
                                     FieldNames[i] = fs[p]]>>]]

\* list.join(sep) over lists of token sequences
RECURSIVE Join(_, _)
Join(list, sep) ==
    IF list = <<>> THEN <<>>
    ELSE IF Len(list) = 1 THEN list[1]
    ELSE list[1] \o <<sep>> \o Join(Tail(list), sep)

\* the optional `indices` argument of the constructor
NoIndices == [given |-> FALSE, of |-> <<>>]
GivenIndices(ix) == [given |-> TRUE, of |-> ix]

\* new ColumnMap(definition, indices)
NewColumnMap(definition, ix) ==
    [definition |-> definition,
     map |-> [p \in 1..Len(definition) |->
                [index |-> IF ix.given THEN ix.of[definition[p].field] ELSE p,
                 field |-> definition[p].field,
                 column |-> definition[p].column]]]

fields(cm) == [p \in 1..Len(cm.map) |-> cm.map[p].field]
columns(cm) == Join([p \in 1..Len(cm.map) |-> cm.map[p].column], ",")
aliasedColumns(cm) ==
    Join([p \in 1..Len(cm.map) |->
            cm.map[p].column \o <<"as", cm.map[p].field>>], ",")
assignments(cm) ==
    Join([p \in 1..Len(cm.map) |->
            cm.map[p].column \o <<"=", Dollar[cm.map[p].index]>>], ",")
placeholders(cm) ==
    Join([p \in 1..Len(cm.map) |-> <<Dollar[cm.map[p].index]>>], ",")

\* model[x.field], undefined when the model has no such property
Property(model, f) == IF f \in DOMAIN model THEN model[f] ELSE "undefined"

\* values(model): this.map.map(x => model[x.field])
values(cm, model) ==
    [p \in 1..Len(cm.map) |-> Property(model, cm.map[p].field)]

\* indices(): the record field -> index
indices(cm) ==
    [f \in Range(fields(cm)) |->
        cm.map[CHOOSE p \in 1..Len(cm.map) : cm.map[p].field = f].index]

\* _.pick(object, ...props): the listed keys the object has, in the order
\* they are listed
RECURSIVE LodashPick(_, _, _)
LodashPick(definition, props, acc) ==
    IF props = <<>> THEN acc
    ELSE LET hit == SelectSeq(definition, LAMBDA d : d.field = Head(props))
             seen == \E p \in 1..Len(acc) : acc[p].field = Head(props)
         IN LodashPick(definition, Tail(props),
                       IF hit = <<>> \/ seen THEN acc ELSE Append(acc, hit[1]))

\* _.omit(object, ...props): the object's other keys, in the object's order
LodashOmit(definition, props) ==
    SelectSeq(definition, LAMBDA d : d.field \notin Range(props))

\* _.mapValues(definition, v => table + '.' + v)
Qualify(definition, table) ==
    [p \in 1..Len(definition) |->
        [field |-> definition[p].field,
         column |-> <<table, ".">> \o definition[p].column]]

\* a pick that keeps the indices of the mapping it is taken from
pickKeepsIndices(cm, props) ==
    NewColumnMap(LodashPick(cm.definition, props, <<>>),
                 GivenIndices(indices(cm)))

pick(cm, props) ==
    NewColumnMap(LodashPick(cm.definition, props, <<>>), NoIndices)

pickPreserveIndices(cm, props) ==
    NewColumnMap(LodashPick(cm.definition, props, <<>>),
                 GivenIndices(indices(cm)))

omit(cm, props) ==
    NewColumnMap(LodashOmit(cm.definition, props), NoIndices)

omitPreserveIndices(cm, props) ==
    NewColumnMap(LodashOmit(cm.definition, props), GivenIndices(indices(cm)))

withTableName(cm, table) ==
    NewColumnMap(Qualify(cm.definition, table), NoIndices)

---------------------------------------------------------------------------
(* query.ts: the statement builders over a ColumnMap *)

\* an optional argument that was not passed
Undefined == [given |-> FALSE, keys |-> <<>>]
\* an object (a filter) or an array (updateFields) with these keys
Given(keys) == [given |-> TRUE, keys |-> keys]

\* the value every model object holds for a field
ValueOf(f) == <<"value of", f>>
\* a model object with the given properties
ModelWith(keys) == [f \in Range(keys) |-> ValueOf(f)]

\* select(table, map, filter)
select(table, cm, filter) ==
    LET base == <<"SELECT">> \o aliasedColumns(cm) \o <<"FROM", table>>
        filterMap == pick(cm, filter.keys)
    IN IF filter.given
       THEN [query |-> base \o <<"WHERE">> \o assignments(filterMap),
             hasValues |-> TRUE,
             values |-> values(filterMap, ModelWith(filter.keys))]
       ELSE [query |-> base, hasValues |-> FALSE, values |-> <<>>]

\* an update whose WHERE is rendered from a renumbered key mapping
updateRenumbersKeys(table, cm, value, keyFields, updateFields, returning) ==
    LET keyMap == pick(cm, keyFields)
        updateMap == IF ~updateFields.given
                     THEN omitPreserveIndices(cm, keyFields)
                     ELSE pickPreserveIndices(cm, updateFields.keys)
        ret == IF returning THEN <<"RETURNING">> \o aliasedColumns(cm)
               ELSE <<>>
    IN [query |-> <<"UPDATE", table, "SET">> \o assignments(updateMap)
                    \o <<"WHERE">> \o assignments(keyMap) \o ret,
        hasValues |-> TRUE,
        values |-> values(cm, value)]

\* update(table, map, value, keyFields, updateFields, returning)
update(table, cm, value, keyFields, updateFields, returning) ==
    LET keyMap == pickPreserveIndices(cm, keyFields)
        updateMap == IF ~updateFields.given
                     THEN omitPreserveIndices(cm, keyFields)
                     ELSE pickPreserveIndices(cm, updateFields.keys)
        ret == IF returning THEN <<"RETURNING">> \o aliasedColumns(cm)
               ELSE <<>>
    IN [query |-> <<"UPDATE", table, "SET">> \o assignments(updateMap)
                    \o <<"WHERE">> \o assignments(keyMap) \o ret,
        hasValues |-> TRUE,
        values |-> values(cm, value)]

---------------------------------------------------------------------------
(* A ColumnMap, the mappings derived from it and the statements built on them *)

\* the calls that end a run: a statement or a values list has been built
Built == {"values", "select", "update"}

\* the mapping the application holds is replaced by one derived from it
Derive(name, cm, props) ==
    /\ input.fn = "ColumnMap"
    /\ output.fn \notin Built
    /\ input.derived < MaxDerive
    /\ input' = [input EXCEPT !.cm = cm, !.derived = @ + 1]
    /\ output' = [fn |-> name, from |-> input.cm, props |-> props]

CmPick ==
    /\ \E props \in Props :
          Derive("pick", pick(input.cm, props), props)
    /\ UNCHANGED <<clientVars, dbVars, db, tx, concVars>>

CmPickPreserveIndices ==
    /\ \E props \in Props :
          Derive("pickPreserveIndices", pickPreserveIndices(input.cm, props),
                 props)
    /\ UNCHANGED <<clientVars, dbVars, db, tx, concVars>>

CmOmit ==
    /\ \E props \in Props :
          Derive("omit", omit(input.cm, props), props)
    /\ UNCHANGED <<clientVars, dbVars, db, tx, concVars>>

CmOmitPreserveIndices ==
    /\ \E props \in Props :
          Derive("omitPreserveIndices", omitPreserveIndices(input.cm, props),
                 props)
    /\ UNCHANGED <<clientVars, dbVars, db, tx, concVars>>

CmWithTableName ==
    /\ Derive("withTableName", withTableName(input.cm, "u"), <<>>)
    /\ UNCHANGED <<clientVars, dbVars, db, tx, concVars>>

\* map.values(model) with a model that has every field
CmValues ==
    /\ input.fn = "ColumnMap"
    /\ output.fn \notin Built
    /\ output' = [fn |-> "values", from |-> input.cm, props |-> <<>>,
                  values |-> values(input.cm, ModelWith(FieldNames))]
    /\ UNCHANGED <<input, clientVars, dbVars, db, tx, concVars>>

QSelect ==
    /\ input.fn = "ColumnMap"
    /\ output.fn \notin Built
    /\ \E filter \in {Undefined} \cup {Given(k) : k \in Props} :
          output' = [fn |-> "select", from |-> input.cm, filter |-> filter,
                     q |-> select("users", input.cm, filter)]
    /\ UNCHANGED <<input, clientVars, dbVars, db, tx, concVars>>

QUpdate ==
    /\ input.fn = "ColumnMap"
    /\ output.fn \notin Built
    /\ \E keyFields \in Props, returning \in BOOLEAN :
       \E updateFields \in {Undefined, Given(<<FieldNames[1]>>)} :
          output' = [fn |-> "update", from |-> input.cm,
                     keyFields |-> keyFields, updateFields |-> updateFields,
                     returning |-> returning,
                     q |-> update("users", input.cm, ModelWith(FieldNames),
                                  keyFields, updateFields, returning)]
    /\ UNCHANGED <<input, clientVars, dbVars, db, tx, concVars>>

\* a ColumnMap made by the constructor from a definition, without indices
InitColumnMap ==
    /\ InitClient
    /\ InitDatabase
    /\ db = [table |-> FALSE, ledger |-> EmptyLedger, log |-> <<>>]
    /\ tx = Closed
    /\ dhist = NoDHist
    /\ NoClients
    /\ \E fs \in Orderings(Fields, Cardinality(Fields)) :
          input = [fn |-> "ColumnMap",
                   cm |-> NewColumnMap(DefinitionOf(fs), NoIndices),
                   derived |-> 0]
    /\ output = [fn |-> "none"]

NextColumnMap ==
    \/ CmPick
    \/ CmPickPreserveIndices
    \/ CmOmit
    \/ CmOmitPreserveIndices
    \/ CmWithTableName
    \/ CmValues
    \/ QSelect
    \/ QUpdate

SpecColumnMap == InitColumnMap /\ [][NextColumnMap]_vars

---------------------------------------------------------------------------
(* client.ts, connectClient.ts: the BEGIN statement of transaction() *)

\* enum IsolationMode: the text each member interpolates into BEGIN
IsolationMode ==
    [Serializable |-> "SERIALIZABLE",
     RepeatableRead |-> "REPEATABLE READ",
     ReadCommitted |-> "READ COMMITTED",
     ReadUncomitted |-> "READ UNCOMITTED"]

IsolationModes == {IsolationMode[m] : m \in DOMAIN IsolationMode}

\* const mode = isolation || IsolationMode.Serializable
ModeOf(isolation) ==
    IF isolation = "undefined" THEN IsolationMode.Serializable ELSE isolation

\* `BEGIN TRANSACTION ISOLATION LEVEL ${mode}`: the template's text, then the
\* interpolated mode
BeginStatement(isolation) ==
    <<"BEGIN TRANSACTION ISOLATION LEVEL", ModeOf(isolation)>>

---------------------------------------------------------------------------
(* query.ts helpers and ConnectClient: operations that expect one row *)

\* a result row is the sequence of its column values
RowShapes == {<<"v">>, <<"v", "w">>}
ResultSets == UNION {[1..n -> RowShapes] : n \in 0..MaxRows}

Returns(v) == [thrown |-> NoError, value |-> v]
Throws(e) == [thrown |-> e, value |-> "undefined"]

\* query.ts single(results)
single(results) ==
    IF Len(results) > 1 THEN Throws(MoreThanOneDbError)
    ELSE IF Len(results) = 0 THEN Throws(NotFoundDbError)
    ELSE Returns(results[1])

getFirstValue(obj) == IF Len(obj) = 0 THEN "undefined" ELSE obj[1]

\* query.ts scalar(results)
scalar(results) ==
    LET one == single(results)
    IN IF one.thrown # NoError THEN one ELSE Returns(getFirstValue(one.value))

\* ConnectClient.single(cmd): query(), then the check of the rows
ClientSingle(rows) ==
    IF AfterQuery("single", rows) # NoError
    THEN Throws(AfterQuery("single", rows))
    ELSE Returns(rows[1])

\* ConnectClient.scalar(cmd): the check inside open()
ClientScalar(rows) ==
    IF Len(rows) # 1 \/ Len(rows[1]) # 1
    THEN Throws(MoreThanOneDbError)
    ELSE Returns(rows[1][1])

SingleRowOps == {"single", "scalar", "ConnectClient.single",
                 "ConnectClient.scalar"}

SingleRow(name, rows) ==
    CASE name = "single" -> single(rows)
      [] name = "scalar" -> scalar(rows)
      [] name = "ConnectClient.single" -> ClientSingle(rows)
      [] name = "ConnectClient.scalar" -> ClientScalar(rows)

---------------------------------------------------------------------------
(* ddl.ts constraint names and their reading in convertPgError *)

\* a name is the sequence of its identifiers and separators
Identifiers == {"a", "b", "c"}
ColumnLists == Orderings(Identifiers, MaxColumns) \ {<<>>}

Each(cols) == [i \in 1..Len(cols) |-> <<cols[i]>>]

makePrimaryKeyName(table, cols) ==
    <<"PK", ":", table, ":">> \o Join(Each(cols), ":")

\* `UQ:${table}:${column}`: the array is converted with toString()
makeUniqueConstraintName(table, column) ==
    <<"UQ", ":", table, ":">> \o Join(Each(column), ",")

makeForeignKeyName(table, cols, target) ==
    <<"FK", ":", table, ":">> \o Join(Each(cols), ":") \o <<":", target>>

\* text.split(sep)
RECURSIVE SplitScan(_, _, _, _)
SplitScan(text, sep, i, parts) ==
    IF i > Len(text) THEN parts
    ELSE IF text[i] = sep
         THEN SplitScan(text, sep, i + 1, Append(parts, <<>>))
         ELSE SplitScan(text, sep, i + 1,
                        [parts EXCEPT ![Len(parts)] = Append(@, text[i])])

Split(text, sep) == SplitScan(text, sep, 1, << <<>> >>)

\* a missing text: undefined and '' are both falsy
NoText == <<>>

Element(parts, i) == IF i <= Len(parts) THEN parts[i] ELSE NoText

Or(x, y) == IF x # NoText THEN x ELSE y

\* let [, t, col, fk] = (err.constraint || '').split(':');
\* [t, col] = [err.table || t, err.column || col];
\* new DbError(code, message, err.constraint, t, col, fk)
Attribution(err) ==
    LET parts == Split(err.constraint, ":")
    IN [constraintName |-> err.constraint,
        tableName |-> Or(err.table, Element(parts, 2)),
        columnName |-> Or(err.column, Element(parts, 3)),
        foreignTable |-> Element(parts, 4)]

ConstraintKinds == {"PK", "UQ", "FK"}

ConstraintName(kind, table, cols, target) ==
    CASE kind = "PK" -> makePrimaryKeyName(table, cols)
      [] kind = "UQ" -> makeUniqueConstraintName(table, cols)
      [] kind = "FK" -> makeForeignKeyName(table, cols, target)

---------------------------------------------------------------------------
(* conventions.ts *)

\* an identifier is the sequence of its characters
LowerCase == {"a"}
UpperCase == {"B"}
toLowerCase(c) == IF c = "B" THEN "b" ELSE c

Keys == UNION {[1..n -> LowerCase \cup UpperCase] : n \in 1..MaxKeyLen}
KeyLists == Orderings(Keys, MaxKeys)

\* id.split(/(?=[A-Z])/).map(x => x.toLowerCase())
RECURSIVE fromCamelCaseScan(_, _, _)
fromCamelCaseScan(id, i, words) ==
    IF i > Len(id) THEN words
    ELSE IF i > 1 /\ id[i] \in UpperCase
         THEN fromCamelCaseScan(id, i + 1,
                                Append(words, <<toLowerCase(id[i])>>))
         ELSE fromCamelCaseScan(id, i + 1,
                 [words EXCEPT ![Len(words)] = Append(@, toLowerCase(id[i]))])

fromCamelCase(id) == fromCamelCaseScan(id, 1, << <<>> >>)

toSnakeCase(words) == Join(words, "_")

camelToSnake(id) == toSnakeCase(fromCamelCase(id))

\* the values an object may hold under a key
StringValue(s) == [type |-> "string", text |-> s]

\* def.reduce((a, x) => ({...a, [x]: camelToSnake(x.toString())}), {}):
\* the object's entries in insertion order
snakeCaseMap(def) ==
    [i \in 1..Len(def) |->
        [key |-> def[i], value |-> StringValue(camelToSnake(def[i]))]]

---------------------------------------------------------------------------
(* The library functions, each called once on one input *)

ErrorValues ==
    {PgError(c) : c \in DriverCodes}
        \cup {PlainError("x"), NotFoundDbError, MoreThanOneDbError,
              DbError("DuplicateKey"), DbError("Unknown")}

DriverError(code, constraint, table, column) ==
    [code |-> code, constraint |-> constraint, table |-> table,
     column |-> column]

LibInputs ==
    {[fn |-> "transaction", isolation |-> m] :
        m \in IsolationModes \cup {"undefined"}}
    \cup {[fn |-> "singleRow", name |-> n, rows |-> r] :
            n \in SingleRowOps, r \in ResultSets}
    \cup {[fn |-> "convertPgError", err |-> e] : e \in ErrorValues}
    \cup {[fn |-> "constraint", kind |-> k, table |-> "t", columns |-> cs,
           target |-> "u", code |-> c, driver |-> d] :
            k \in ConstraintKinds, cs \in ColumnLists,
            c \in {"23503", "23505"}, d \in BOOLEAN}
    \cup {[fn |-> "snakeCaseMap", keys |-> ks] : ks \in KeyLists}

Ready(fn) == input.fn = fn /\ output.fn = "none"

LibFrame == UNCHANGED <<input, clientVars, dbVars, db, tx, concVars>>

\* transaction(callback, isolation) up to its BEGIN
LibBegin ==
    /\ Ready("transaction")
    /\ output' = [fn |-> "transaction", sql |-> BeginStatement(input.isolation)]
    /\ LibFrame

LibSingleRow ==
    /\ Ready("singleRow")
    /\ output' = [fn |-> "singleRow",
                  outcome |-> SingleRow(input.name, input.rows)]
    /\ LibFrame

LibConvertPgError ==
    /\ Ready("convertPgError")
    /\ output' = [fn |-> "convertPgError",
                  err |-> convertPgError(input.err),
                  code |-> getDbErrorCode(convertPgError(input.err))]
    /\ LibFrame

\* the driver rejects a statement over a constraint the DDL helpers named
LibConstraint ==
    /\ Ready("constraint")
    /\ LET name == ConstraintName(input.kind, input.table, input.columns,
                                  input.target)
           err == DriverError(input.code, name,
                              IF input.driver THEN <<"dt">> ELSE NoText,
                              IF input.driver THEN <<"dc">> ELSE NoText)
       IN output' = [fn |-> "constraint",
                     name |-> name,
                     code |-> getDbErrorCode(convertPgError(PgError(err.code))),
                     context |-> Attribution(err)]
    /\ LibFrame

LibSnakeCaseMap ==
    /\ Ready("snakeCaseMap")
    /\ output' = [fn |-> "snakeCaseMap", map |-> snakeCaseMap(input.keys)]
    /\ LibFrame

InitLib ==
    /\ InitClient
    /\ InitDatabase
    /\ db = [table |-> FALSE, ledger |-> EmptyLedger, log |-> <<>>]
    /\ tx = Closed
    /\ dhist = NoDHist
    /\ NoClients
    /\ input \in LibInputs
    /\ output = [fn |-> "none"]

NextLib ==
    \/ LibBegin
    \/ LibSingleRow
    \/ LibConvertPgError
    \/ LibConstraint
    \/ LibSnakeCaseMap

SpecLib == InitLib /\ [][NextLib]_vars

---------------------------------------------------------------------------
(* Two clients running updateToLatest against one database.               *)
(*                                                                         *)
(* Each client has its own connection.  The server runs their             *)
(* transactions at SERIALIZABLE: a transaction reads the rows committed   *)
(* when it took its snapshot (at its first statement) and its own; once   *)
(* another transaction has committed since, any of its statements and its *)
(* COMMIT may be rejected with a serialization failure.  The ledger id is *)
(* a primary key: an INSERT of an id waits for an uncommitted INSERT of   *)
(* the same id and is rejected once that id is committed.                 *)

Frame(c, f) == cl' = [cl EXCEPT ![c] = f]
Txn(c, t) == srv' = [srv EXCEPT !.txn[c] = t]

ConcFrame == UNCHANGED <<clientVars, dbVars, db, tx, callVars>>

\* c's transaction once it has run a statement: the first one takes the
\* snapshot
Snapshot(c) ==
    IF srv.txn[c].snap THEN srv.txn[c]
    ELSE [srv.txn[c] EXCEPT !.snap = TRUE, !.seen = srv.rows]

\* SELECT hash FROM ledger WHERE id = v, inside transaction t
HashRows(t, v) ==
    LET found == SelectSeq(t.seen \o t.rows, LAMBDA r : r.id = v)
    IN [i \in 1..Len(found) |-> found[i].hash]

\* another transaction has committed since c's took its snapshot
Conflict(c) == srv.txn[c].snap /\ srv.txn[c].seen # srv.rows

\* the codes the server may reject a statement of c's transaction with
ConflictCodes(c) == IF Conflict(c) THEN {"40001"} ELSE {}

\* a ledger table without the primary key
NoPrimaryKey(v) == FALSE

\* id int NOT NULL PRIMARY KEY: a row of id v is committed
KeyConflict(v) == \E p \in 1..Len(srv.rows) : srv.rows[p].id = v

\* another transaction holds an uncommitted row of id v
KeyPending(c, v) ==
    \E d \in Clients \ {c} :
       \E p \in 1..Len(srv.txn[d].rows) : srv.txn[d].rows[p].id = v

\* the statement is rejected with code: the callback's await throws
Rejected(c, code, raw) ==
    /\ Frame(c, [cl[c] EXCEPT
                    !.e = IF raw THEN PgError(code)
                          ELSE convertPgError(PgError(code)),
                    !.pc = "rollback"])
    /\ srv' = srv

\* updateToLatest(): ensureMigrationsTable finds the table, the loop starts
CUpdateToLatest(c) ==
    /\ cl[c].pc = "idle"
    /\ Frame(c, IF N = 0
                THEN [cl[c] EXCEPT !.pc = "done", !.status = "void"]
                ELSE [cl[c] EXCEPT !.pc = "begin", !.k = NextMigration(0),
                                   !.i = 0])
    /\ srv' = srv
    /\ ConcFrame

\* transaction(): BEGIN TRANSACTION ISOLATION LEVEL SERIALIZABLE
CBegin(c) ==
    /\ cl[c].pc = "begin"
    /\ Frame(c, [cl[c] EXCEPT !.pc = "uow", !.n = 0])
    /\ Txn(c, [NoTxn EXCEPT !.open = TRUE])
    /\ ConcFrame

\* applyMigration's callback: checkMigration
CCheck(c) ==
    /\ cl[c].pc = "uow"
    /\ MigStep(cl[c].n, Len(Migrations[cl[c].k].statements)) = "check"
    /\ \/ \E code \in ConflictCodes(c) : Rejected(c, code, FALSE)
       \/ LET verdict == CheckOutcome(HashRows(Snapshot(c), cl[c].k), cl[c].k)
          IN /\ Txn(c, Snapshot(c))
             /\ Frame(c, CASE verdict = "absent" -> [cl[c] EXCEPT !.n = 1]
                           [] verdict = "applied" ->
                                 [cl[c] EXCEPT !.pc = "commit"]
                           [] OTHER -> [cl[c] EXCEPT !.e = HashMismatch,
                                                     !.pc = "rollback"])
    /\ ConcFrame

\* applyMigration's callback: one statement of the migration
CStatement(c) ==
    /\ cl[c].pc = "uow"
    /\ MigStep(cl[c].n, Len(Migrations[cl[c].k].statements)) = "statement"
    /\ \/ \E code \in ConflictCodes(c) \cup {"42P01"} :
             Rejected(c, code, FALSE)
       \/ /\ Txn(c, [srv.txn[c] EXCEPT
                        !.log = Append(@, <<"mig", cl[c].k, cl[c].n>>)])
          /\ Frame(c, [cl[c] EXCEPT !.n = @ + 1])
    /\ ConcFrame

\* applyMigration's callback: the ledger INSERT, then it returns
CInsert(c) ==
    /\ cl[c].pc = "uow"
    /\ MigStep(cl[c].n, Len(Migrations[cl[c].k].statements)) = "insert"
    /\ ~KeyPending(c, cl[c].k)
    /\ IF KeyConflict(cl[c].k)
       THEN \E code \in {"23505", "40001"} : Rejected(c, code, FALSE)
       ELSE \/ \E code \in ConflictCodes(c) : Rejected(c, code, FALSE)
            \/ /\ Txn(c, [srv.txn[c] EXCEPT
                             !.rows = Append(@,
                                 [id |-> cl[c].k,
                                  hash |-> Hash(Migrations[cl[c].k].statements)])])
               /\ Frame(c, [cl[c] EXCEPT !.pc = "commit"])
    /\ ConcFrame

\* transaction(): COMMIT; applyMigration returns and the loop goes on
CCommit(c) ==
    /\ cl[c].pc = "commit"
    /\ \/ \E code \in ConflictCodes(c) :
             /\ Frame(c, [cl[c] EXCEPT !.e = PgError(code), !.pc = "rollback"])
             /\ Txn(c, NoTxn)
       \/ /\ srv' = [srv EXCEPT !.rows = @ \o srv.txn[c].rows,
                                !.log = @ \o srv.txn[c].log,
                                !.txn[c] = NoTxn]
          /\ Frame(c, IF NextMigration(cl[c].k) > N
                      THEN [cl[c] EXCEPT !.pc = "done", !.status = "void"]
                      ELSE [cl[c] EXCEPT !.pc = "begin",
                                         !.k = NextMigration(@), !.i = 0])
    /\ ConcFrame

\* transaction(): catch (e): ROLLBACK, then retry or throw e out of
\* applyMigration and updateToLatest
CRollback(c) ==
    /\ cl[c].pc = "rollback"
    /\ Txn(c, NoTxn)
    /\ Frame(c, IF WillRetry(cl[c].e, cl[c].i)
                THEN [cl[c] EXCEPT !.i = @ + 1, !.e = NoError,
                                   !.pc = "delay"]
                ELSE [cl[c] EXCEPT !.pc = "done", !.status = "error",
                                   !.e = convertPgError(@)])
    /\ ConcFrame

\* transaction(): the retry delay
CDelay(c) ==
    /\ cl[c].pc = "delay"
    /\ Frame(c, [cl[c] EXCEPT !.pc = "begin"])
    /\ srv' = srv
    /\ ConcFrame

InitConc ==
    /\ InitClient
    /\ InitDatabase
    /\ db = [table |-> TRUE, ledger |-> EmptyLedger, log |-> <<>>]
    /\ tx = Closed
    /\ dhist = NoDHist
    /\ NoCallVars
    /\ NoClients

NextConc ==
    \E c \in Clients :
       \/ CUpdateToLatest(c)
       \/ CBegin(c)
       \/ CCheck(c)
       \/ CStatement(c)
       \/ CInsert(c)
       \/ CCommit(c)
       \/ CRollback(c)
       \/ CDelay(c)

SpecConc == InitConc /\ [][NextConc]_vars

---------------------------------------------------------------------------
(* Claims about the connection scope and the transaction manager (SpecTx) *)

Done == pc = "done"
TxDone == Done /\ op.kind = "transaction" /\ acquired

\* C1: once connect() has returned a connection, release is called on it
\* exactly once on every exit path, never before the operation's last
\* statement on the connection, and never by a query made through the
\* transaction-scoped handle (no release while the operation is running).
C1_ReleasedExactlyOnce ==
    /\ hist.released <= 1
    /\ ~hist.stmtAfterRelease
    /\ pc \in {"opened", "tx", "finally"} => hist.released = 0
    /\ (Done /\ acquired) => hist.released = 1
    /\ (Done /\ ~acquired) => hist.released = 0

\* a transaction that used its handle, ran a nested transaction and threw
C1_Witness ==
    /\ TxDone
    /\ hist.released = 1
    /\ hist.nestedBegin
    /\ thrown # NoError

\* C2: transaction() never makes more than 1 + deadlockRetries attempts; when
\* every attempt ends with the unit of work raising a classified
\* SerializationFailure or DeadlockDetected (each followed by an accepted
\* ROLLBACK), the unit of work is run exactly 1 + deadlockRetries times and
\* the error of the last run is thrown to the caller unchanged.
C2_AttemptsBounded ==
    /\ hist.begins <= 1 + deadlockRetries
    /\ hist.uowRuns <= hist.begins
    /\ (TxDone /\ hist.pure) =>
          /\ hist.uowRuns = 1 + deadlockRetries
          /\ hist.begins = 1 + deadlockRetries
          /\ IsRetryable(getDbErrorCode(hist.raised))
          /\ thrown = hist.raised

\* eleven runs, every one of which raised a retryable classified error
C2_Witness ==
    /\ TxDone
    /\ hist.pure
    /\ hist.uowRuns = 1 + deadlockRetries
    /\ thrown = DbError("DeadlockDetected")

\* C3: once the unit of work has raised an error that is neither
\* SerializationFailure nor DeadlockDetected, transaction() sends ROLLBACK,
\* sends no further BEGIN and waits no retry delay (so a unit of work whose
\* first run raises it is attempted exactly once), and, the ROLLBACK having
\* been accepted, throws that very error to the caller.
C3_NonRetryableNotRetried ==
    hist.fatal # NoError =>
        /\ "BEGIN" \notin hist.afterFatal
        /\ "delay" \notin hist.afterFatal
        /\ hist.begins = hist.delays + 1
        /\ pc \in {"finally", "done"} => "ROLLBACK" \in hist.afterFatal
        /\ (pc \in {"finally", "done"} /\ "ROLLBACKok" \in hist.afterFatal)
              => thrown = hist.fatal

\* a first run that raised DuplicateKey, thrown to the caller after one attempt
C3_Witness ==
    /\ TxDone
    /\ hist.fatal = DbError("DuplicateKey")
    /\ thrown = DbError("DuplicateKey")
    /\ hist.begins = 1
    /\ hist.uowRuns = 1

\* C4: transaction() surfaces SerializationFailure or DeadlockDetected to its
\* caller only after 1 + deadlockRetries attempts have been made, whichever
\* statement of the attempt raised the driver's 40001 or 40P01.
C4_RetryableSurfacesOnlyAfterBudget ==
    (TxDone /\ IsRetryable(getDbErrorCode(thrown)))
        => hist.begins = 1 + deadlockRetries

\* C5: a transaction() called on the transaction-scoped handle sends no BEGIN
\* of its own between the outermost BEGIN and the outermost COMMIT/ROLLBACK.
C5_NoNestedBegin ==
    ~hist.nestedBegin

---------------------------------------------------------------------------
(* Claims about the migration engine (SpecMig) *)

\* the statements of migration v, as the server logs them
Full(v) == [j \in 1..Len(Migrations[v].statements) |-> <<"mig", v, j>>]

IsStmtOf(s, v) == s[1] = "mig" /\ s[2] = v

\* the statements of migration v in a log, in the order they were executed
StmtsOf(log, v) == SelectSeq(log, LAMBDA s : IsStmtOf(s, v))

IsPrefix(a, b) == Len(a) <= Len(b) /\ a = SubSeq(b, 1, Len(a))

RECURSIVE AllUpTo(_)
AllUpTo(v) == IF v = 0 THEN <<>> ELSE AllUpTo(v - 1) \o Full(v)

\* the ledger row of version v records another hash than the list's
Mismatch(v) ==
    /\ db.ledger[v].present
    /\ db.ledger[v].hash # Hash(Migrations[v].statements)

Returned(name, auto) ==
    /\ dpc = "idle"
    /\ dres.method = name
    /\ dres.auto = auto

\* C6: while the ledger holds a row of version v whose hash differs from the
\* hash of the list's migration v, no statement of migration v is executed
\* and no ledger row is written inside applyMigration(v); init, with or
\* without auto-apply, throws and leaves the ledger as it found it;
\* applyMigration(v) throws, and once checkMigration has raised the mismatch
\* the transaction sends no further BEGIN and waits no retry delay.
C6_HashMismatchIsFatal ==
    /\ \A v \in 1..N : Mismatch(v) =>
          /\ StmtsOf(db.log, v) = <<>>
          /\ StmtsOf(tx.log, v) = <<>>
    /\ \A a \in BOOLEAN :
          (Returned("init", a) /\ \E v \in 1..N : Mismatch(v)) =>
              /\ dres.status = "error"
              /\ dres.error # NoError
              /\ db.ledger = dhist.ledger0
              /\ "mig" \notin dhist.stmts
              /\ "insert" \notin dhist.stmts
    /\ (dpc = "apply" /\ Mismatch(dk)) =>
          /\ tx.open => tx.ledger = db.ledger
          /\ Settled => thrown # NoError
          /\ hist.fatal = HashMismatch =>
                /\ "BEGIN" \notin hist.afterFatal
                /\ "delay" \notin hist.afterFatal
                /\ hist.begins = hist.delays + 1
                /\ Settled => thrown \in {HashMismatch} \cup
                                 {convertPgError(PgError(c)) : c \in DriverCodes}

\* init(true) passed migration 1 and threw the hash mismatch of migration 2
\* after a single attempt
C6_Witness ==
    /\ Returned("init", TRUE)
    /\ dres.error = HashMismatch
    /\ Mismatch(2)
    /\ ~Mismatch(1)
    /\ db.ledger = dhist.ledger0

\* C7: applyMigration(m) runs m's statements in list order and then inserts
\* the ledger row, all inside one BEGIN..COMMIT block: the committed state
\* holds either none of m's statements or all of them in order, all of them
\* exactly when it holds the ledger row applyMigration wrote for m, and no
\* statement or ledger INSERT is ever sent outside a block.
C7_ApplyMigrationAtomic ==
    /\ ~dhist.outsideTx
    /\ \A v \in 1..N :
          /\ StmtsOf(db.log, v) \in {<<>>, Full(v)}
          /\ StmtsOf(db.log, v) = Full(v) =>
                db.ledger[v] = Row(Hash(Migrations[v].statements))
          /\ (db.ledger[v].present /\ ~dhist.origin[v].present) =>
                StmtsOf(db.log, v) = Full(v)
          /\ tx.open =>
                /\ IsPrefix(StmtsOf(tx.log, v), Full(v))
                /\ tx.ledger[v] # db.ledger[v] =>
                      /\ StmtsOf(tx.log, v) = Full(v)
                      /\ tx.ledger[v] = Row(Hash(Migrations[v].statements))

\* migration 1 was applied and committed, migration 2 failed on a rejected
\* statement after its first statement had run: nothing of it is committed
C7_Witness ==
    /\ dpc = "apply"
    /\ dk = 2
    /\ Settled
    /\ thrown = DbError("DuplicateKey")
    /\ hist.uowRuns = 1
    /\ "mig" \in dhist.stmts
    /\ StmtsOf(db.log, 1) = Full(1)
    /\ ~dhist.origin[1].present
    /\ db.ledger[1].present
    /\ StmtsOf(db.log, 2) = <<>>
    /\ ~db.ledger[2].present

\* C8: once an updateToLatest has returned, no later call sends a migration
\* statement or a ledger INSERT, and the ledger stays as that call left it.
C8_SecondUpdateIsNoOp ==
    dhist.completed > 0 =>
        /\ ~dhist.writeAfterDone
        /\ db.ledger = dhist.doneLedger
        /\ tx.open => (tx.ledger = db.ledger /\ tx.log = db.log)

\* a second updateToLatest has returned after a first that applied migrations
C8_Witness ==
    /\ dpc = "idle"
    /\ dres.method = "updateToLatest"
    /\ dres.status = "void"
    /\ dhist.completed = 2
    /\ db.log = AllUpTo(N)

\* C9: init(false) on a database without the ledger table sends no statement
\* but the existence probe, does not create the table, and returns Empty.
C9_ProbeOnly ==
    /\ (dop.name = "init" /\ ~dop.auto /\ ~dhist.table0) =>
          /\ dhist.stmts \subseteq {"probe"}
          /\ ~db.table
    /\ (Returned("init", FALSE) /\ ~dhist.table0) =>
          /\ dhist.stmts \subseteq {"probe"}
          /\ ~db.table
          /\ dres.error = NoError => dres.status = "Empty"

\* init(false) has returned Empty after its probe
C9_Witness ==
    /\ Returned("init", FALSE)
    /\ dres.status = "Empty"
    /\ dhist.stmts = {"probe"}
    /\ ~db.table

\* C10: a statement of migration v+1 runs only when the ledger row of v is
\* committed; an init(true) that returns on a database that had no ledger
\* table has created the table, applied every migration in ascending order
\* and returns UpToDate; an init(false) that returns afterwards returns
\* UpToDate.
C10_InitTrueAppliesAll ==
    /\ \A v \in 1..(N - 1) :
          (StmtsOf(db.log, v + 1) # <<>> \/ StmtsOf(tx.log, v + 1) # <<>>) =>
              db.ledger[v] = Row(Hash(Migrations[v].statements))
    /\ (Returned("init", TRUE) /\ ~dhist.table0 /\ dres.error = NoError) =>
          /\ dres.status = "UpToDate"
          /\ db.table
          /\ \A v \in 1..N :
                db.ledger[v] = Row(Hash(Migrations[v].statements))
          /\ db.log = AllUpTo(N)
    /\ (Returned("init", FALSE) /\ dhist.fresh /\ dres.error = NoError) =>
          dres.status = "UpToDate"

\* init(false) has returned UpToDate after an init(true) built the database
C10_Witness ==
    /\ Returned("init", FALSE)
    /\ dhist.fresh
    /\ dres.status = "UpToDate"
    /\ db.log = AllUpTo(N)

\* the applied versions of a ledger, as SELECT id ... ORDER BY id ASC reads
\* them, have some position below both their number and the list's length
\* whose version is not the position plus one
OutOfSequence(ledger) ==
    LET applied == SortedIds(ledger)
    IN \E i \in 0..(N - 1) : i < Len(applied) /\ applied[i + 1] # i + 1

\* every migration of the list has a ledger row with the list's hash
AllApplied(ledger) ==
    \A v \in 1..N : ledger[v] = Row(Hash(Migrations[v].statements))

\* C11: init(false) on a database that has the ledger table sends no
\* migration statement and no ledger INSERT; when the ledger shows no version
\* or hash mismatch it fails only on a driver error, and when it returns it
\* returns UpToDate if every migration of the list has a ledger row with the
\* list's hash and NeedsUpgrade if not.
C11_InitFalseStatus ==
    /\ (dop.name = "init" /\ ~dop.auto) =>
          /\ "mig" \notin dhist.stmts
          /\ "insert" \notin dhist.stmts
          /\ db.ledger = dhist.ledger0
    /\ (Returned("init", FALSE) /\ dhist.table0) =>
          /\ "mig" \notin dhist.stmts
          /\ "insert" \notin dhist.stmts
          /\ db.ledger = dhist.ledger0
          /\ dres.error = NoError =>
                /\ dres.status \in {"UpToDate", "NeedsUpgrade"}
                /\ dres.status = "UpToDate" <=> AllApplied(db.ledger)
          /\ (~OutOfSequence(db.ledger) /\ ~\E v \in 1..N : Mismatch(v)) =>
                dres.error \in {NoError} \cup
                    {convertPgError(PgError(c)) : c \in DriverCodes}

\* init(false) has returned NeedsUpgrade for a ledger that holds migration 1
\* of the list and not migration 2
C11_Witness ==
    /\ Returned("init", FALSE)
    /\ dhist.table0
    /\ dres.status = "NeedsUpgrade"
    /\ db.ledger[1] = Row(Hash(Migrations[1].statements))
    /\ ~db.ledger[2].present
    /\ dhist.stmts = {"probe", "create", "selectIds", "selectHash"}

\* C12: when the applied versions read from the ledger are out of sequence
\* within the range of the list, init throws, and sends no migration
\* statement, no ledger INSERT and no BEGIN.
C12_GapIsFatal ==
    /\ (dop.name = "init" /\ OutOfSequence(dhist.ledger0)) =>
          /\ dpc \in {"probe", "ensure", "select"}
          /\ dhist.stmts \subseteq {"probe", "create", "selectIds"}
          /\ hist.begins = 0
          /\ db.ledger = dhist.ledger0
    /\ \A a \in BOOLEAN :
          (Returned("init", a) /\ OutOfSequence(dhist.ledger0)) =>
              /\ dres.status = "error"
              /\ dres.error # NoError
              /\ dhist.stmts \subseteq {"probe", "create", "selectIds"}
              /\ db.ledger = dhist.ledger0

\* init(true) has thrown the version error for a ledger that holds version 2
\* and not version 1
C12_Witness ==
    /\ Returned("init", TRUE)
    /\ dres.error = VersionMismatch
    /\ ~dhist.ledger0[1].present
    /\ dhist.ledger0[2].present
    /\ dhist.stmts = {"probe", "create", "selectIds"}

\* C13: init never returns UpToDate or NeedsUpgrade, and throws, when the
\* ledger holds more applied records than the list has migrations or a
\* version that is not in the list.
C13_ExtraVersionIsFatal ==
    \A a \in BOOLEAN :
       (/\ Returned("init", a)
        /\ \/ Len(SortedIds(dhist.ledger0)) > N
           \/ \E v \in Versions \ (1..N) : dhist.ledger0[v].present) =>
           /\ dres.status \notin {"UpToDate", "NeedsUpgrade"}
           /\ dres.error # NoError

---------------------------------------------------------------------------
(* Claims about the Database constructor (SpecCtor) *)

\* C14: the constructor throws exactly when some i-th migration (0-indexed)
\* of the list has a version other than i+1, and accepts the lists 1..N, the
\* empty list included; either way no connection has been made and no
\* statement sent when it returns or throws.
C14_ConstructorValidatesList ==
    output.fn = "Database" =>
        /\ output.threw <=>
              input.versions # [i \in 1..Len(input.versions) |-> i]
        /\ output.threw =>
              /\ input.versions[output.at] # output.at
              /\ \A j \in 1..(output.at - 1) : input.versions[j] = j
        /\ ~acquired
        /\ ~dop.client
        /\ hist = NewHist
        /\ db.log = <<>>

\* the constructor has thrown for a list whose first migration is right and
\* whose second repeats version 1
C14_Witness ==
    /\ output.fn = "Database"
    /\ output.threw
    /\ output.at = 2
    /\ input.versions = <<1, 1>>

---------------------------------------------------------------------------
(* Claims about Migration.hash (SpecHash) *)

\* C15, as stated and read in the way most favourable to it, for two
\* different, non-empty statements s1 and s2: hash([s1,s2]) differs from
\* hash([s1]) and from hash([s2,s1]).
C15_HashOrderSensitive ==
    (/\ output.fn = "hash"
     /\ input.s1 # input.s2
     /\ input.s1 # <<>>
     /\ input.s2 # <<>>) =>
        /\ output.h12 # output.h1
        /\ output.h12 # output.h21

\* C15, amended: hash([s1,s2]) differs from hash([s1]) exactly when s2 is not
\* empty, and from hash([s2,s1]) exactly when the text s1 followed by s2 is
\* not the text s2 followed by s1.
C15_HashOfConcatenation ==
    output.fn = "hash" =>
        /\ output.h12 # output.h1 <=> input.s2 # <<>>
        /\ output.h12 # output.h21 <=>
              input.s1 \o input.s2 # input.s2 \o input.s1

\* the two orders of "ab" and "c" hash differently, and differently from
\* "ab" alone
C15_Witness ==
    /\ output.fn = "hash"
    /\ input.s1 = <<"a", "b">>
    /\ input.s2 = <<"c">>
    /\ output.h12 # output.h21
    /\ output.h12 # output.h1

---------------------------------------------------------------------------
(* Claims about ColumnMap and the statement builders (SpecColumnMap) *)

\* the position of the first token tok of a statement, 0 when it has none
First(q, tok) ==
    IF tok \notin Range(q) THEN 0
    ELSE CHOOSE i \in 1..Len(q) : q[i] = tok /\ \A j \in 1..(i - 1) : q[j] # tok

\* the tokens of a statement after its keyword from, up to its keyword to or,
\* when it has no such keyword, to its end
Clause(q, from, to) ==
    LET a == First(q, from)
        b == IF First(q, to) = 0 THEN Len(q) + 1 ELSE First(q, to)
    IN IF a = 0 THEN <<>> ELSE SubSeq(q, a + 1, b - 1)

\* how many times a sequence of tokens occurs in a clause
Occurrences(pattern, clause) ==
    Cardinality({i \in 1..Len(clause) :
                    /\ i + Len(pattern) - 1 <= Len(clause)
                    /\ SubSeq(clause, i, i + Len(pattern) - 1) = pattern})

\* the assignment `column = $index` of an entry
AssignmentOf(e) == e.column \o <<"=", Dollar[e.index]>>

\* the indices of a mapping are 1..n in entry order
Positional(cm) == \A p \in 1..Len(cm.map) : cm.map[p].index = p

UniqueIndices(cm) ==
    \A p, r \in 1..Len(cm.map) :
        cm.map[p].index = cm.map[r].index => p = r

\* C16: for a mapping with positional indices and key fields K of it,
\* update(table, map, value, K) renders in SET exactly one assignment
\* column = $index for every field outside K and none for a field of K, in
\* WHERE exactly one for every field of K and none for another, each with the
\* field's index in the full mapping, and values[i-1] is the value of the
\* field whose index is i.
C16_UpdateAssignments ==
    (/\ output.fn = "update"
     /\ ~output.updateFields.given
     /\ Positional(output.from)
     /\ Range(output.keyFields) \subseteq Range(fields(output.from))) =>
        LET cm == output.from
            K == Range(output.keyFields)
            n == Len(cm.map)
            set == Clause(output.q.query, "SET", "WHERE")
            where == Clause(output.q.query, "WHERE", "RETURNING")
        IN /\ Occurrences(<<"=">>, set) = n - Cardinality(K)
           /\ Occurrences(<<"=">>, where) = Cardinality(K)
           /\ \A p \in 1..n :
                 /\ Occurrences(AssignmentOf(cm.map[p]), set) =
                       IF cm.map[p].field \in K THEN 0 ELSE 1
                 /\ Occurrences(AssignmentOf(cm.map[p]), where) =
                       IF cm.map[p].field \in K THEN 1 ELSE 0
           /\ Len(output.q.values) = n
           /\ \A p \in 1..n :
                 output.q.values[cm.map[p].index] = ValueOf(cm.map[p].field)

\* update on the mapping {id, name} with key id: SET full_name = $2,
\* WHERE user_id = $1, values of id and name
C16_Witness ==
    /\ output.fn = "update"
    /\ fields(output.from) = <<"id", "name">>
    /\ output.keyFields = <<"id">>
    /\ output.q.query = <<"UPDATE", "users", "SET", "full_name", "=", "$2",
                          "WHERE", "user_id", "=", "$1">>
    /\ output.q.values = <<ValueOf("id"), ValueOf("name")>>

\* C17: for any mapping, sub-mappings with preserved indices included,
\* values(model) holds at position index - 1 (0-indexed) the model's value of
\* the entry that has this index.
C17_ValuesAlignedToIndex ==
    output.fn = "values" =>
        \A p \in 1..Len(output.from.map) :
            LET e == output.from.map[p]
            IN /\ e.index <= Len(output.values)
               /\ output.values[e.index] = ValueOf(e.field)

\* C18: pick and omit give a sub-mapping of the right fields whose indices
\* are 1..k in its own entry order; pickPreserveIndices and
\* omitPreserveIndices give one in which every kept field has the index it
\* had in the mapping it was taken from; indices are unique in each.
C18_SubMappingIndices ==
    /\ output.fn \in {"pick", "pickPreserveIndices"} =>
          Range(fields(input.cm)) =
              Range(fields(output.from)) \cap Range(output.props)
    /\ output.fn \in {"omit", "omitPreserveIndices"} =>
          Range(fields(input.cm)) =
              Range(fields(output.from)) \ Range(output.props)
    /\ output.fn \in {"pick", "omit"} => Positional(input.cm)
    /\ output.fn \in {"pickPreserveIndices", "omitPreserveIndices"} =>
          \A p \in 1..Len(input.cm.map) :
             \E r \in 1..Len(output.from.map) :
                /\ output.from.map[r].field = input.cm.map[p].field
                /\ output.from.map[r].index = input.cm.map[p].index
    /\ output.fn \in {"pick", "omit", "pickPreserveIndices",
                      "omitPreserveIndices"} => UniqueIndices(input.cm)

\* omitPreserveIndices('name') of {id, name, age}: id keeps 1 and age keeps 3
C18_Witness ==
    /\ output.fn = "omitPreserveIndices"
    /\ output.props = <<"name">>
    /\ fields(input.cm) = <<"id", "age">>
    /\ input.cm.map[1].index = 1
    /\ input.cm.map[2].index = 3

\* C19: select with a filter object that has no keys gives the statement
\* SELECT <aliased columns> FROM <table>, without a WHERE.
C19_EmptyFilterNoWhere ==
    (/\ output.fn = "select"
     /\ output.filter.given
     /\ output.filter.keys = <<>>) =>
        /\ "WHERE" \notin Range(output.q.query)
        /\ output.q.query =
              <<"SELECT">> \o aliasedColumns(output.from) \o <<"FROM", "users">>

\* C20: withTableName gives a mapping with the same fields in the same order
\* and the same index for every entry, also when the indices were preserved
\* and are not contiguous.
C20_WithTableNameKeepsIndices ==
    output.fn = "withTableName" =>
        /\ fields(input.cm) = fields(output.from)
        /\ \A p \in 1..Len(input.cm.map) :
              input.cm.map[p].index = output.from.map[p].index

---------------------------------------------------------------------------
(* Claims about the library functions (SpecLib) *)

\* C21: for each isolation mode transaction() issues exactly
\* BEGIN TRANSACTION ISOLATION LEVEL <level>, the level being one of
\* SERIALIZABLE, REPEATABLE READ, READ COMMITTED, READ UNCOMMITTED, and
\* SERIALIZABLE when no mode is given.
C21_BeginStatement ==
    output.fn = "transaction" =>
        /\ output.sql[1] = "BEGIN TRANSACTION ISOLATION LEVEL"
        /\ output.sql[2] \in {"SERIALIZABLE", "REPEATABLE READ",
                              "READ COMMITTED", "READ UNCOMMITTED"}
        /\ input.isolation = "undefined" => output.sql[2] = "SERIALIZABLE"

\* C22: each of single, scalar, ConnectClient.single and
\* ConnectClient.scalar fails with NotFound on zero rows, fails with
\* MoreThanOne on more than one row, and returns the row (or its first
\* value) on exactly one row.
C22_SingleRowOutcome ==
    output.fn = "singleRow" =>
        LET n == Len(input.rows)
            o == output.outcome
        IN /\ n = 0 => o.thrown = NotFoundDbError
           /\ n > 1 => o.thrown = MoreThanOneDbError
           /\ n = 1 =>
                 /\ o.thrown = NoError
                 /\ o.value = IF input.name \in {"scalar", "ConnectClient.scalar"}
                              THEN input.rows[1][1]
                              ELSE input.rows[1]

Recognised == {"23503", "23505", "40001", "40P01"}

CodeMapping ==
    /\ input.err.code = "23503" => output.code = "InvalidReference"
    /\ input.err.code = "23505" => output.code = "DuplicateKey"
    /\ input.err.code = "40001" => output.code = "SerializationFailure"
    /\ input.err.code = "40P01" => output.code = "DeadlockDetected"

\* C23 as stated: convertPgError maps 23503, 23505, 40001 and 40P01 to
\* InvalidReference, DuplicateKey, SerializationFailure and
\* DeadlockDetected, returns every value with no code or an unrecognised
\* code unmodified, and getDbErrorCode of such a value is Unknown.
C23_UnconvertedIsUnknown ==
    output.fn = "convertPgError" =>
        /\ CodeMapping
        /\ input.err.code \notin Recognised =>
              /\ output.err = input.err
              /\ output.code = "Unknown"

\* C23: convertPgError maps the four codes as above and returns every error
\* with no code or an unrecognised code unmodified; getDbErrorCode of such
\* an error is Unknown unless the error carries a convertedCode of its own,
\* which is then the code.
C23_ConvertPgError ==
    output.fn = "convertPgError" =>
        /\ CodeMapping
        /\ input.err.code \in Recognised => output.err.kind = "DbError"
        /\ input.err.code \notin Recognised =>
              /\ output.err = input.err
              /\ output.code =
                    IF input.err.convertedCode \in {"undefined", "Unknown"}
                    THEN "Unknown"
                    ELSE input.err.convertedCode

\* a driver error with a code convertPgError does not know comes back as it
\* was and is classified Unknown
C23_Witness ==
    /\ output.fn = "convertPgError"
    /\ input.err = PgError("42P01")
    /\ output.err = PgError("42P01")
    /\ output.code = "Unknown"

\* C24: for a name made by makePrimaryKeyName, makeUniqueConstraintName or
\* makeForeignKeyName with one or several columns, a duplicate-key or
\* invalid-reference error that carries the name and no driver table or
\* column is attributed to the table, to the column(s) given, and to the
\* target table for a foreign key, to no foreign table otherwise.
C24_NameRoundTrip ==
    (output.fn = "constraint" /\ ~input.driver) =>
        /\ output.code \in {"DuplicateKey", "InvalidReference"}
        /\ output.context.tableName = <<input.table>>
        /\ output.context.columnName \in
              {Join(Each(input.columns), ":"), Join(Each(input.columns), ",")}
        /\ output.context.foreignTable =
              IF input.kind = "FK" THEN <<input.target>> ELSE NoText

\* C25: snakeCaseMap(keys) has exactly one entry per key, and the entry of
\* the i-th key (from 0) has property = the key, column = the key in
\* snake_case and index = i.
C25_SnakeCaseMapItems ==
    output.fn = "snakeCaseMap" =>
        /\ Len(output.map) = Len(input.keys)
        /\ \A i \in 1..Len(input.keys) :
              /\ output.map[i].key = input.keys[i]
              /\ output.map[i].value.type = "item"
              /\ output.map[i].value.property = input.keys[i]
              /\ output.map[i].value.column = camelToSnake(input.keys[i])
              /\ output.map[i].value.index = i - 1

---------------------------------------------------------------------------
(* Claims about transaction attempts (SpecTx) *)

\* the BEGIN of the outermost transaction()'s current attempt was accepted:
\* a rejected BEGIN is never retried
BeginSucceeded == hist.uowRuns = hist.begins

\* C26: in every attempt COMMIT and ROLLBACK are sent only after the
\* attempt's BEGIN has succeeded, COMMIT is sent only when the unit of work
\* returned without error, a BEGIN is sent only at the start or after the
\* previous attempt's ROLLBACK and the retry delay, and the unit of work's
\* statements run only inside a BEGIN..COMMIT/ROLLBACK bracket.
C26_AttemptStateMachine ==
    [][/\ (Depth = 1 /\ (TxCommit \/ TxRollback)) => BeginSucceeded
       /\ TxCommit => Top.e = NoError
       /\ (Depth = 1 /\ TxBegin) =>
             /\ hist.begins = hist.delays
             /\ hist.raised = NoError
       /\ UowQuery => tx.open]_vars

\* C29: when a nested transaction() has completed and the outer unit of
\* work then fails, nothing of the outer attempt stays committed, and
\* nothing is committed on the connection while the outermost unit of work
\* is still running.
C29_AllOrNothingAcrossNesting ==
    /\ (InTx /\ stack[1].pc = "uow") => db.log = <<>>
    /\ (TxDone /\ thrown # NoError) => db.log = <<>>

\* C30: when the outermost transaction() sends ROLLBACK for an attempt that
\* failed with error e, then whether or not the ROLLBACK succeeds it either
\* retries (e retryable, budget left) or throws e, classified, to its caller.
C30_RollbackFailureKeepsError ==
    [][(Depth = 1 /\ TxRollback) =>
          IF WillRetry(Top.e, Top.i)
          THEN pc' = "tx" /\ Depth' = 1 /\ Top'.pc = "delay"
          ELSE pc' = "finally" /\ thrown' = convertPgError(Top.e)]_vars

---------------------------------------------------------------------------
(* Claims about the ledger over any sequence of calls (SpecMig) *)

\* the ledger holds exactly the versions 1..m, each with the hash of the
\* list's migration of that version
LedgerIsPrefix(ledger, m) ==
    \A v \in Versions :
       ledger[v] = IF v <= m THEN Row(Hash(Migrations[v].statements))
                   ELSE NoRow

\* C27: starting from a ledger with no rows, after any sequence of
\* init(true), init(false) and updateToLatest calls by one client, failed
\* ones included, the committed ledger holds exactly the versions 1..M for
\* some M <= N, each with the hash of the list's migration of that version,
\* and a committed row is never changed or removed afterwards.
C27_LedgerAppendOnly ==
    /\ [](dhist.origin = EmptyLedger =>
            \E m \in 0..N : LedgerIsPrefix(db.ledger, m))
    /\ [][\A v \in Versions :
             db.ledger[v].present => db.ledger'[v] = db.ledger[v]]_vars

\* an updateToLatest that failed after migration 1 was committed: the ledger
\* that started empty holds version 1 only
C27_Witness ==
    /\ dhist.origin = EmptyLedger
    /\ dpc = "idle"
    /\ dres.method = "updateToLatest"
    /\ dres.status = "error"
    /\ LedgerIsPrefix(db.ledger, 1)
    /\ StmtsOf(db.log, 1) = Full(1)

---------------------------------------------------------------------------
(* Claims about two concurrent clients (SpecConc) *)

\* how many times x occurs in a sequence
Count(seq, x) == Cardinality({p \in 1..Len(seq) : seq[p] = x})

CommittedIds == [p \in 1..Len(srv.rows) |-> srv.rows[p].id]

\* C28: when two clients run updateToLatest concurrently with the same
\* migration list, in every interleaving each statement of each migration is
\* committed at most once, the committed ledger never holds two rows for one
\* version, and no statement of a migration is committed without the
\* migration's ledger row.
C28_ConcurrentUpdateToLatest ==
    \A v \in 1..N :
       /\ \A j \in 1..Len(Migrations[v].statements) :
             Count(srv.log, <<"mig", v, j>>) <= 1
       /\ Count(CommittedIds, v) <= 1
       /\ StmtsOf(srv.log, v) # <<>> => Count(CommittedIds, v) = 1

\* both clients ran the first migration's statements in overlapping
\* transactions; one committed it, the other was rejected at its INSERT with
\* a duplicate key and threw, and every migration is committed once
C28_Witness ==
    /\ \A c \in Clients : cl[c].pc = "done"
    /\ \E c \in Clients :
          /\ cl[c].status = "error"
          /\ getDbErrorCode(cl[c].e) = "DuplicateKey"
          /\ cl[c].k = 1
    /\ \A v \in 1..N :
          StmtsOf(srv.log, v) = Full(v) /\ Count(CommittedIds, v) = 1

===========================================================================
